---- MODULE Spec2Model ----
(***************************************************************************)
(* tc_reader: a pass_persist bridge between the TC command and the SNMP     *)
(* daemon.  The model covers the OID sorter (lib/oid_sorter.go), the SNMP   *)
(* store and its Listen loop (lib/snmp.go) and the TC parser with its       *)
(* periodic rebuild (lib/parser.go), started as main does (tc_reader.go).   *)
(*                                                                         *)
(* Text.  A Go string is a TLA+ string; it is scanned with Head, Tail and   *)
(* SubSeq and built with \o.                                               *)
(*                                                                         *)
(* Numbers.  TLC integers are 32 bits wide.  A Go int, and an int64 known   *)
(* to fit 32 bits, is a TLC integer.  An int64 that may exceed 32 bits      *)
(* (the counters of parsedData) is a decimal numeral: the string of its     *)
(* digits without leading zeros.                                            *)
(***************************************************************************)
EXTENDS Integers, Sequences, FiniteSets, TLC

VARIABLES
    l,                \* snmp.l: who holds the mutex: "free", "parser" or "listen"
    oidData,          \* snmp.oidData: OID -> snmpData
    oids,             \* snmp.oids: the list of stored OIDs
    tcLastNameIndex,  \* snmp.tcLastNameIndex
    nameToIndex,      \* snmp.nameToIndex
    tcLastUserIndex,  \* snmp.tcLastUserIndex
    userToIndex,      \* snmp.userToIndex
    ppc,              \* where the goroutine running tcParser.parseTc stands
    ifaceIdx,         \* position of the range loop in progress (parseTc: over ifaces())
    qdiscOutput,      \* parseTc: output of the Qdisc statistics command
    classOutput,      \* parseTc: output of the Class statistics command
    lpc,              \* where snmp.Listen stands
    command,          \* Listen: the command line read by this iteration
    oid,              \* Listen: the OID line read for get / getnext
    written,          \* lines put on the talker by the iteration of Listen in progress
    released,         \* the fields of snmp as they were when the mutex was last released
    options,          \* tcParser.options: the TcParserOptions given to NewTcParser
    fsn,              \* the fakeSnmp a test puts in the place of the snmp
    calls             \* the calls parseTc has made on t.snmp, t.executer and
                      \* t.logger.Err, those of the parseTc in progress or last finished

vars == <<l, oidData, oids, tcLastNameIndex, nameToIndex, tcLastUserIndex,
          userToIndex, ppc, ifaceIdx, qdiscOutput, classOutput, lpc, command,
          oid, written, released, options, fsn, calls>>

----------------------------------------------------------------------------
(* Numbers and their text form (packages strconv and math).                 *)

MaxInt32 == 2147483647

\* The value of a digit character in the given base, or -1 when it is no digit.
DigitVal(c, base) ==
    LET d == CASE c = "0" -> 0 [] c = "1" -> 1 [] c = "2" -> 2 [] c = "3" -> 3
               [] c = "4" -> 4 [] c = "5" -> 5 [] c = "6" -> 6 [] c = "7" -> 7
               [] c = "8" -> 8 [] c = "9" -> 9 [] c = "a" -> 10 [] c = "b" -> 11
               [] c = "c" -> 12 [] c = "d" -> 13 [] c = "e" -> 14 [] c = "f" -> 15
               [] OTHER -> -1
    IN  IF d < base THEN d ELSE -1

DigitChar(d) == SubSeq("0123456789", d + 1, d + 1)

RECURSIVE FormatUint(_)
FormatUint(v) ==
    IF v < 10 THEN DigitChar(v) ELSE FormatUint(v \div 10) \o DigitChar(v % 10)

\* strconv.FormatInt(v, 10) of a value that fits 32 bits.
FormatInt(v) == IF v < 0 THEN "-" \o FormatUint(0 - v) ELSE FormatUint(v)

\* strconv.ParseInt(s, base, 32) of a string without sign: the value and
\* whether an error is returned.  A syntax error returns 0 and a value out of
\* range returns the largest int32.
RECURSIVE ParseUint32(_, _, _)
ParseUint32(s, base, acc) ==
    IF s = "" THEN [v |-> acc, err |-> FALSE]
    ELSE LET d == DigitVal(Head(s), base) IN
         IF d < 0 THEN [v |-> 0, err |-> TRUE]
         ELSE IF acc > (MaxInt32 - d) \div base THEN [v |-> MaxInt32, err |-> TRUE]
         ELSE ParseUint32(Tail(s), base, acc * base + d)

ParseInt32(s, base) ==
    IF s = "" THEN [v |-> 0, err |-> TRUE] ELSE ParseUint32(s, base, 0)

\* A decimal numeral without its leading zeros.
RECURSIVE StripZeros(_)
StripZeros(s) == IF Len(s) > 1 /\ Head(s) = "0" THEN StripZeros(Tail(s)) ELSE s

\* a <= b for two numerals of the same length.
RECURSIVE DigitsLeq(_, _)
DigitsLeq(a, b) ==
    IF a = "" THEN TRUE
    ELSE IF Head(a) = Head(b) THEN DigitsLeq(Tail(a), Tail(b))
    ELSE DigitVal(Head(a), 10) < DigitVal(Head(b), 10)

\* a <= b for two numerals without leading zeros.
NumeralLeq(a, b) == Len(a) < Len(b) \/ (Len(a) = Len(b) /\ DigitsLeq(a, b))

RECURSIVE AllDigits(_)
AllDigits(s) == s = "" \/ (DigitVal(Head(s), 10) >= 0 /\ AllDigits(Tail(s)))

MaxInt64 == "9223372036854775807"

\* strconv.ParseInt(s, 10, 64) of a string without sign, as a numeral.
ParseInt64(s) ==
    IF s = "" \/ ~AllDigits(s) THEN [v |-> "0", err |-> TRUE]
    ELSE IF NumeralLeq(StripZeros(s), MaxInt64)
    THEN [v |-> StripZeros(s), err |-> FALSE]
    ELSE [v |-> MaxInt64, err |-> TRUE]

\* int64(v) of a non-negative int v, as a numeral.
Int64(v) == FormatUint(v)

\* (x + y) mod m for 0 <= x, y < m, computed within 32 bits.
AddMod(x, y, m) == IF x >= m - y THEN x - (m - y) ELSE x + y

\* (10 * x) mod m for 0 <= x < m.
Times10Mod(x, m) ==
    LET x2 == AddMod(x, x, m)
        x4 == AddMod(x2, x2, m)
        x8 == AddMod(x4, x4, m)
    IN  AddMod(x8, x2, m)

\* The numeral n modulo m, digit by digit; acc, the value of the digits read
\* so far modulo m, is below m at every digit.
RECURSIVE NumeralMod(_, _, _)
NumeralMod(n, m, acc) ==
    IF n = "" \/ acc >= m THEN acc
    ELSE NumeralMod(Tail(n), m,
                    AddMod(Times10Mod(acc, m), DigitVal(Head(n), 10) % m, m))

\* Variant of rotated: only a value above math.MaxInt32 is rotated.  C7 tells
\* the two apart.
rotated_AboveMaxInt32(value) ==
    IF value = "2147483647" THEN MaxInt32 ELSE NumeralMod(value, MaxInt32, 0)

\* The powers of two 2^53 .. 2^62 as numerals: from 2^53 on a float64 no
\* longer holds every integer.
Pow2Numerals == <<
    "9007199254740992", "18014398509481984", "36028797018963968",
    "72057594037927936", "144115188075855872", "288230376151711744",
    "576460752303423488", "1152921504606846976", "2305843009213693952",
    "4611686018427387904" >>

\* The distance of two neighbouring float64 values at a non-negative int64
\* value: 1 below 2^53 and 2^(e - 52) for 2^e <= value < 2^(e + 1).
RECURSIVE float64Ulp(_, _, _)
float64Ulp(value, i, ulp) ==
    IF i > Len(Pow2Numerals) \/ ~NumeralLeq(Pow2Numerals[i], value) THEN ulp
    ELSE float64Ulp(value, i + 1, 2 * ulp)

\* int64(math.Mod(float64(value), float64(math.MaxInt32))) of a non-negative
\* int64 value.  float64(value) is the multiple of the ulp nearest to value,
\* the one with the even significand when value is half way between two;
\* math.Mod of that float64 is exact and below 2^31.
rotated(value) ==
    LET ulp == float64Ulp(value, 1, 1)
        below == NumeralMod(value, ulp, 0)
        odd == NumeralMod(value, 2 * ulp, 0) >= ulp
        up == 2 * below > ulp \/ (2 * below = ulp /\ odd)
        exact == NumeralMod(value, MaxInt32, 0)
        floor == IF exact >= below THEN exact - below
                 ELSE exact + (MaxInt32 - below)
    IN  IF up THEN AddMod(floor, ulp, MaxInt32) ELSE floor

----------------------------------------------------------------------------
(* lib/oid_sorter.go                                                        *)

\* strings.Index(s, ".") counted from 1, searched from position i on: the
\* position of the first dot, 0 when there is none.
RECURSIVE IndexFrom(_, _)
IndexFrom(s, i) ==
    IF i > Len(s) THEN 0
    ELSE IF SubSeq(s, i, i) = "." THEN i
    ELSE IndexFrom(s, i + 1)

\* strings.Split(s, "."): the parts of s between the dots.
RECURSIVE Split(_)
Split(s) ==
    LET i == IndexFrom(s, 1)
    IN  IF i = 0 THEN <<s>>
        ELSE <<SubSeq(s, 1, i - 1)>> \o Split(SubSeq(s, i + 1, Len(s)))

\* The parts of an OID, each as Less reads it: int_first, _ :=
\* strconv.ParseInt(value_first, 10, 32), the error dropped.
IntParts(s) ==
    LET parts == Split(s)
    IN  <<>> \o [x \in 1..Len(parts) |-> ParseInt32(parts[x], 10).v]

\* The loop of oidSorter.Less over parts_first, from position x on.
RECURSIVE LessFrom(_, _, _, _)
LessFrom(parts_first, parts_second, inverse, x) ==
    IF x > Len(parts_first) THEN FALSE
    ELSE LET int_first == parts_first[x]
             int_second == IF Len(parts_second) > x - 1 THEN parts_second[x] ELSE 0
         IN  IF int_first = int_second
             THEN LessFrom(parts_first, parts_second, inverse, x + 1)
             ELSE IF inverse THEN int_first > int_second
                  ELSE int_first < int_second

\* Variant of LessParts: the lists of parts are never swapped, and the loop
\* runs over the first one even when it is the shorter.  C40 tells the two
\* apart.
LessParts_NoSwap(pa, pb) == LessFrom(pa, pb, FALSE, 1)

\* oidSorter.Less after the split: the longer list of parts is compared to
\* the shorter one.
LessParts(pa, pb) ==
    IF Len(pa) < Len(pb) THEN LessFrom(pb, pa, TRUE, 1)
    ELSE LessFrom(pa, pb, FALSE, 1)

\* oidSorter.Less for (*o.oids)[i] = a and (*o.oids)[j] = b.
Less(a, b) == LessParts(IntParts(a), IntParts(b))

\* The position in the sorted list s (of positions of list) at which x is
\* inserted: after every element that x is not Less than.
RECURSIVE InsertAt(_, _, _, _, _)
InsertAt(parts, s, x, lo, hi) ==
    IF lo >= hi THEN lo
    ELSE LET mid == (lo + hi) \div 2
         IN  IF LessParts(parts[x], parts[s[mid]])
             THEN InsertAt(parts, s, x, lo, mid)
             ELSE InsertAt(parts, s, x, mid + 1, hi)

\* The sorted list s of the positions 1..Len(s) with the next k positions
\* of the list inserted, each in turn: first half of them, then the rest.
RECURSIVE InsertNext(_, _, _)
InsertNext(parts, s, k) ==
    IF k = 0 \/ Len(s) >= Len(parts) THEN s
    ELSE IF k = 1
    THEN LET i == Len(s) + 1
             at == InsertAt(parts, s, i, 1, i)
         IN  SubSeq(s, 1, at - 1) \o <<i>> \o SubSeq(s, at, Len(s))
    ELSE InsertNext(parts, InsertNext(parts, s, k \div 2), k - k \div 2)

\* The positions of the list in sorted order.
StableSort(parts) == InsertNext(parts, <<>>, Len(parts))

\* Variant of sortOIDs: the list is left in the order of the appends.  C2
\* tells the two apart.
sortOIDs_Unsorted(list) == list

\* snmp.sortOIDs: sort.Sort(&oidSorter{oids: &s.oids}).  Less is called on
\* the parts of the elements, split once.  The result is that of a stable
\* sort: sort.Sort sorts up to 12 elements by insertion, which is stable,
\* and for longer lists the elements Less does not order are equal strings
\* here, so that every sorted permutation is the same list.
sortOIDs(list) ==
    LET parts == <<>> \o [i \in 1..Len(list) |-> IntParts(list[i])]
        perm == StableSort(parts)
    IN  <<>> \o [i \in 1..Len(list) |-> list[perm[i]]]

----------------------------------------------------------------------------
(* lib/snmp.go: constants                                                   *)

emptyLine == ""
pingRequst == "PING"
pingResponse == "PONG"
getCommand == "get"
getNextCommand == "getnext"
myName == "tc_reader by mumak@"
myOID == ".1.3.6.1.4.1.2021.255"

tcIndexLeaf == 1
tcNumIndexLeaf == 2
tcNameLeaf == 3
sentBytesLeaf == 4
sentPktLeaf == 5
droppedPktLeaf == 6
overLimitPktLeaf == 7
tcUserIndexLeaf == 8
tcUserNumIndexLeaf == 9
tcUserNameLeaf == 10
tcUserDownBytesLeaf == 11
tcUserDownPktLeaf == 12
tcUserDownDroppedPktLeaf == 13
tcUserDownOverLimitPktLeaf == 14
tcUserUpBytesLeaf == 15
tcUserUpPktLeaf == 16
tcUserUpDroppedPktLeaf == 17
tcUserUpOverLimitPktLeaf == 18

uploadDirection == 0
downloadDirection == 1

\* fmt.Sprintf("%s.%d", myOID, leaf) and fmt.Sprintf("%s.%d.%d", myOID, leaf, index).
LeafOID(leaf) == myOID \o "." \o FormatInt(leaf)
IndexOID(leaf, index) == myOID \o "." \o FormatInt(leaf) \o "." \o FormatInt(index)

\* An interface{} value carries its dynamic type: string, int64 or int.
StringValue(s) == [type |-> "string", v |-> s]
Int64Value(n) == [type |-> "int64", v |-> n]
IntValue(i) == [type |-> "int", v |-> i]

\* A Go map is a function: m[k] = v, and make(map).
MapPut(m, k, v) == (k :> v) @@ m
EmptyMap == <<>>

----------------------------------------------------------------------------
(* lib/snmp.go: the stored data.  The operators take the fields of snmp as  *)
(* a record s and return the record after the call.                         *)

\* Variant of addSnmpData: the OID is not appended to oids.  C11 tells the
\* two apart.
addSnmpData_NoAppend(s, o, objectType, objectValue) ==
    [s EXCEPT !.oidData = MapPut(s.oidData, o,
                  [oid |-> o, objectType |-> objectType, objectValue |-> objectValue])]

\* snmp.addSnmpData
addSnmpData(s, o, objectType, objectValue) ==
    [s EXCEPT !.oids = Append(s.oids, o),
              !.oidData = MapPut(s.oidData, o,
                  [oid |-> o, objectType |-> objectType, objectValue |-> objectValue])]

\* The leaves erase identifies, in the order of its calls of addSnmpData.
headerLeaves == <<
    <<tcIndexLeaf, "tcIndexLeaf">>,
    <<tcNameLeaf, "tcNameLeaf">>,
    <<sentBytesLeaf, "sentBytesLeaf">>,
    <<sentPktLeaf, "sentPktLeaf">>,
    <<droppedPktLeaf, "droppedPktLeaf">>,
    <<overLimitPktLeaf, "overLimitPktLeaf">>,
    <<tcUserIndexLeaf, "tcUserIndexLeaf">>,
    <<tcUserNameLeaf, "tcUserNameLeaf">>,
    <<tcUserDownBytesLeaf, "tcUserDownBytesLeaf">>,
    <<tcUserDownPktLeaf, "tcUserDownPktLeaf">>,
    <<tcUserDownDroppedPktLeaf, "tcUserDownDroppedPktLeaf">>,
    <<tcUserDownOverLimitPktLeaf, "tcUserDownOverLimitPktLeaf">>,
    <<tcUserUpBytesLeaf, "tcUserUpBytesLeaf">>,
    <<tcUserUpPktLeaf, "tcUserUpPktLeaf">>,
    <<tcUserUpDroppedPktLeaf, "tcUserUpDroppedPktLeaf">>,
    <<tcUserUpOverLimitPktLeaf, "tcUserUpOverLimitPktLeaf">> >>

RECURSIVE addHeaders(_, _)
addHeaders(s, i) ==
    IF i > Len(headerLeaves) THEN s
    ELSE addHeaders(addSnmpData(s, LeafOID(headerLeaves[i][1]), "string",
                                StringValue(headerLeaves[i][2])), i + 1)

\* Variant of erase: the index-count leaf is identified too.  C14 tells the
\* two apart.
erase_WithCountHeader ==
    addHeaders(addSnmpData(addSnmpData([oidData |-> EmptyMap, oids |-> <<>>,
                                        tcLastNameIndex |-> 0, nameToIndex |-> EmptyMap,
                                        tcLastUserIndex |-> 0, userToIndex |-> EmptyMap],
                                       myOID, "string", StringValue(myName)),
                           LeafOID(tcNumIndexLeaf), "string", StringValue("tcNumIndexLeaf")), 1)

\* snmp.erase
erase ==
    addHeaders(addSnmpData([oidData |-> EmptyMap, oids |-> <<>>,
                            tcLastNameIndex |-> 0, nameToIndex |-> EmptyMap,
                            tcLastUserIndex |-> 0, userToIndex |-> EmptyMap],
                           myOID, "string", StringValue(myName)), 1)

\* Variant of addCounters: sentPkt is stored under the first leaf and sentBytes
\* under the second.  C29 tells the two apart.
addCounters_PktFirst(s, leaves, index, data) ==
    LET s1 == addSnmpData(s, IndexOID(leaves[1], index), "counter", Int64Value(data.sentPkt))
        s2 == addSnmpData(s1, IndexOID(leaves[2], index), "counter", Int64Value(data.sentBytes))
        s3 == addSnmpData(s2, IndexOID(leaves[3], index), "counter", Int64Value(data.droppedPkt))
    IN  addSnmpData(s3, IndexOID(leaves[4], index), "counter", Int64Value(data.overLimitPkt))

\* The four counters of a parsedData, stored under four leaves at one index.
addCounters(s, leaves, index, data) ==
    LET s1 == addSnmpData(s, IndexOID(leaves[1], index), "counter", Int64Value(data.sentBytes))
        s2 == addSnmpData(s1, IndexOID(leaves[2], index), "counter", Int64Value(data.sentPkt))
        s3 == addSnmpData(s2, IndexOID(leaves[3], index), "counter", Int64Value(data.droppedPkt))
    IN  addSnmpData(s3, IndexOID(leaves[4], index), "counter", Int64Value(data.overLimitPkt))

\* Variant of addGenericData: an index is allocated on every call.  C13
\* tells the two apart.
addGenericData_AlwaysAllocates(s, data) ==
    LET tcIndex == s.tcLastNameIndex + 1
        s0 == [s EXCEPT !.tcLastNameIndex = tcIndex,
                        !.nameToIndex = MapPut(s.nameToIndex, data.name, tcIndex)]
        s1 == addSnmpData(
                addSnmpData(
                  addSnmpData(s0, IndexOID(tcIndexLeaf, tcIndex), "integer", IntValue(tcIndex)),
                  IndexOID(tcNameLeaf, tcIndex), "string", StringValue(data.name)),
                LeafOID(tcNumIndexLeaf), "integer", IntValue(s0.tcLastNameIndex))
    IN  addCounters(s1, <<sentBytesLeaf, sentPktLeaf, droppedPktLeaf, overLimitPktLeaf>>,
                    tcIndex, data)

\* Variant of addGenericData: root.2 is written with the number of indexes
\* that were allocated before this one.  C28 tells the two apart.
addGenericData_StaleCount(s, data) ==
    LET ok == data.name \in DOMAIN s.nameToIndex
        tcIndex == IF ok THEN s.nameToIndex[data.name] ELSE s.tcLastNameIndex + 1
        s0 == IF ok THEN s
              ELSE [s EXCEPT !.tcLastNameIndex = tcIndex,
                             !.nameToIndex = MapPut(s.nameToIndex, data.name, tcIndex)]
        s1 == IF ok THEN s0
              ELSE addSnmpData(
                     addSnmpData(
                       addSnmpData(s0, IndexOID(tcIndexLeaf, tcIndex), "integer", IntValue(tcIndex)),
                       IndexOID(tcNameLeaf, tcIndex), "string", StringValue(data.name)),
                     LeafOID(tcNumIndexLeaf), "integer", IntValue(s.tcLastNameIndex))
    IN  addCounters(s1, <<sentBytesLeaf, sentPktLeaf, droppedPktLeaf, overLimitPktLeaf>>,
                    tcIndex, data)

\* snmp.addGenericData
addGenericData(s, data) ==
    LET ok == data.name \in DOMAIN s.nameToIndex
        tcIndex == IF ok THEN s.nameToIndex[data.name] ELSE s.tcLastNameIndex + 1
        s0 == IF ok THEN s
              ELSE [s EXCEPT !.tcLastNameIndex = tcIndex,
                             !.nameToIndex = MapPut(s.nameToIndex, data.name, tcIndex)]
        s1 == IF ok THEN s0
              ELSE addSnmpData(
                     addSnmpData(
                       addSnmpData(s0, IndexOID(tcIndexLeaf, tcIndex), "integer", IntValue(tcIndex)),
                       IndexOID(tcNameLeaf, tcIndex), "string", StringValue(data.name)),
                     LeafOID(tcNumIndexLeaf), "integer", IntValue(s0.tcLastNameIndex))
    IN  addCounters(s1, <<sentBytesLeaf, sentPktLeaf, droppedPktLeaf, overLimitPktLeaf>>,
                    tcIndex, data)

\* Variant of addUserData: the index is looked up by the name of the class,
\* so that the two directions of a user get an index each.  C23 tells the two
\* apart.
addUserData_IndexPerClass(s, data) ==
    LET uc == data.userClass[1]
        ok == data.name \in DOMAIN s.userToIndex
        tcUserIndex == IF ok THEN s.userToIndex[data.name] ELSE s.tcLastUserIndex + 1
        s0 == IF ok THEN s
              ELSE [s EXCEPT !.tcLastUserIndex = tcUserIndex,
                             !.userToIndex = MapPut(s.userToIndex, data.name, tcUserIndex)]
        s1 == IF ok THEN s0
              ELSE addSnmpData(
                     addSnmpData(
                       addSnmpData(s0, IndexOID(tcUserIndexLeaf, tcUserIndex), "integer", IntValue(tcUserIndex)),
                       IndexOID(tcUserNameLeaf, tcUserIndex), "string", StringValue(uc.name)),
                     LeafOID(tcUserNumIndexLeaf), "integer", IntValue(s0.tcLastUserIndex))
    IN  IF uc.direction = uploadDirection
        THEN addCounters(s1, <<tcUserUpBytesLeaf, tcUserUpPktLeaf,
                               tcUserUpDroppedPktLeaf, tcUserUpOverLimitPktLeaf>>,
                         tcUserIndex, data)
        ELSE addCounters(s1, <<tcUserDownBytesLeaf, tcUserDownPktLeaf,
                               tcUserDownDroppedPktLeaf, tcUserDownOverLimitPktLeaf>>,
                         tcUserIndex, data)

\* snmp.addUserData; data.userClass is a pointer: <<>> is nil, <<u>> points to u.
addUserData(s, data) ==
    LET uc == data.userClass[1]
        ok == uc.name \in DOMAIN s.userToIndex
        tcUserIndex == IF ok THEN s.userToIndex[uc.name] ELSE s.tcLastUserIndex + 1
        s0 == IF ok THEN s
              ELSE [s EXCEPT !.tcLastUserIndex = tcUserIndex,
                             !.userToIndex = MapPut(s.userToIndex, uc.name, tcUserIndex)]
        s1 == IF ok THEN s0
              ELSE addSnmpData(
                     addSnmpData(
                       addSnmpData(s0, IndexOID(tcUserIndexLeaf, tcUserIndex), "integer", IntValue(tcUserIndex)),
                       IndexOID(tcUserNameLeaf, tcUserIndex), "string", StringValue(uc.name)),
                     LeafOID(tcUserNumIndexLeaf), "integer", IntValue(s0.tcLastUserIndex))
    IN  IF uc.direction = uploadDirection
        THEN addCounters(s1, <<tcUserUpBytesLeaf, tcUserUpPktLeaf,
                               tcUserUpDroppedPktLeaf, tcUserUpOverLimitPktLeaf>>,
                         tcUserIndex, data)
        ELSE IF uc.direction = downloadDirection
        THEN addCounters(s1, <<tcUserDownBytesLeaf, tcUserDownPktLeaf,
                               tcUserDownDroppedPktLeaf, tcUserDownOverLimitPktLeaf>>,
                         tcUserIndex, data)
        ELSE s1

\* Variant of addData: a parsedData with a userClass is stored as generic data
\* as well.  C30 tells the two apart.
addData_UserAlsoGeneric(s, data) ==
    IF data.userClass = <<>> THEN addGenericData(s, data)
    ELSE addUserData(addGenericData(s, data), data)

\* snmp.addData
addData(s, data) ==
    IF data.userClass = <<>> THEN addGenericData(s, data) ELSE addUserData(s, data)

\* snmp.printData: the lines put on the talker for one snmpData.
printData(data) ==
    <<data.oid, data.objectType,
      CASE data.objectType = "string" ->
             IF data.objectValue.type # "string" THEN emptyLine
             ELSE data.objectValue.v
        [] data.objectType = "counter" ->
             IF data.objectValue.type # "int64" THEN emptyLine
             ELSE FormatInt(rotated(data.objectValue.v))
        [] data.objectType = "integer" ->
             IF data.objectValue.type # "int" THEN emptyLine
             ELSE FormatInt(data.objectValue.v)
        [] OTHER -> emptyLine >>

\* Variant of snmpGet: nothing is put on the talker for an OID that is not
\* stored.  C5 tells the two apart.
snmpGet_Silent(s, o) ==
    IF o \in DOMAIN s.oidData THEN printData(s.oidData[o]) ELSE <<>>

\* snmp.snmpGet between Lock and Unlock: the lines put on the talker.
snmpGet(s, o) ==
    IF o \in DOMAIN s.oidData THEN printData(s.oidData[o]) ELSE <<emptyLine>>

\* Variant of targetPosition: the range loop stops at the first match.  C3
\* tells the two apart.
targetPosition_First(list, o) ==
    LET matches == {p \in 1..Len(list) : list[p] = o}
    IN  IF matches = {} THEN 0
        ELSE CHOOSE p \in matches : \A q \in matches : p <= q

\* The range loop of snmpGetNext: targetPosition is i + 1 for the last i
\* (counted from 0) with oid == storedOID, and 0 without a match.
targetPosition(list, o) ==
    LET matches == {p \in 1..Len(list) : list[p] = o}
    IN  IF matches = {} THEN 0
        ELSE CHOOSE p \in matches : \A q \in matches : q <= p

\* Variant of snmpGetNext: the entry of the requested OID itself is printed.
\* C4 tells the two apart.
snmpGetNext_Same(s, o) ==
    IF o \notin DOMAIN s.oidData THEN <<emptyLine>>
    ELSE printData(s.oidData[o])

\* Variant of snmpGetNext: after the last OID the first one is printed again.
\* C35 tells the two apart.
snmpGetNext_Wraps(s, o) ==
    IF o \notin DOMAIN s.oidData THEN <<emptyLine>>
    ELSE LET nextPosition == targetPosition(s.oids, o) + 1
         IN  IF Len(s.oids) >= nextPosition
             THEN printData(s.oidData[s.oids[nextPosition]])
             ELSE printData(s.oidData[s.oids[1]])

\* snmp.snmpGetNext between Lock and Unlock: the lines put on the talker.
snmpGetNext(s, o) ==
    IF o \notin DOMAIN s.oidData THEN <<emptyLine>>
    ELSE LET nextPosition == targetPosition(s.oids, o) + 1
         IN  IF Len(s.oids) >= nextPosition
             THEN printData(s.oidData[s.oids[nextPosition]])
             ELSE <<emptyLine>>

\* snmp.unlock, the part before s.l.Unlock(): the OIDs are sorted.
unlock(s) == [s EXCEPT !.oids = sortOIDs(s.oids)]

----------------------------------------------------------------------------
(* lib/parser.go                                                            *)
(*                                                                         *)
(* A line of command output is the regular expression it matches and the   *)
(* groups that expression captures: re is "qdisc" (reQdiscHeaderStr),      *)
(* "class" (reClassHeaderStr), "stats" (reStatsStr) or "none".             *)

QdiscHeader(qdiscHandle) == [re |-> "qdisc", groups |-> <<"htb", qdiscHandle>>]
ClassHeader(qdiscHandle, classHandle) ==
    [re |-> "class", groups |-> <<"htb", qdiscHandle, classHandle>>]
StatsLine(sentBytes, sentPkt, droppedPkt, overLimitPkt) ==
    [re |-> "stats", groups |-> <<sentBytes, sentPkt, droppedPkt, overLimitPkt>>]
OtherLine == [re |-> "none", groups |-> <<>>]

\* FindAllStringSubmatch(line, -1)[0]: the whole match, then the groups.
matchSlice(line) == <<line.re>> \o line.groups

\* Variant of parseDataLocals: parseData starts with a header pending, as if
\* an earlier call had left it.  C34 tells the two apart.
parseDataLocals_HeaderPending ==
    [haveHeader |-> TRUE, haveData |-> FALSE,
     qdiscHandle |-> 7, classHandle |-> 7,
     sentBytes |-> "0", sentPkt |-> "0",
     droppedPkt |-> "0", overLimitPkt |-> "0",
     err |-> FALSE]

\* The local variables of parseData at its start.
parseDataLocals == [haveHeader |-> FALSE, haveData |-> FALSE,
                    qdiscHandle |-> 0, classHandle |-> 0,
                    sentBytes |-> "0", sentPkt |-> "0",
                    droppedPkt |-> "0", overLimitPkt |-> "0",
                    err |-> FALSE]

\* parseData, the header branch for one line.
parseHeader(v, line, reHeader) ==
    IF line.re # reHeader THEN v
    ELSE LET m == matchSlice(line)
             q == ParseInt32(m[3], 16)
             c == IF Len(m) = 4 THEN ParseInt32(m[4], 16)
                  ELSE [v |-> v.classHandle, err |-> FALSE]
         IN  IF q.err THEN [v EXCEPT !.qdiscHandle = q.v, !.err = TRUE]
             ELSE IF c.err
             THEN [v EXCEPT !.qdiscHandle = q.v, !.classHandle = c.v, !.err = TRUE]
             ELSE [v EXCEPT !.qdiscHandle = q.v, !.classHandle = c.v,
                            !.haveHeader = TRUE]

\* parseData, the data branch for one line.
parseStats(v, line) ==
    IF line.re # "stats" THEN v
    ELSE LET m == matchSlice(line)
             b == ParseInt64(m[2])
             p == ParseInt32(m[3], 10)
             d == ParseInt32(m[4], 10)
             o == ParseInt32(m[5], 10)
         IN  IF b.err THEN [v EXCEPT !.sentBytes = b.v, !.err = TRUE]
             ELSE IF p.err
             THEN [v EXCEPT !.sentBytes = b.v, !.sentPkt = Int64(p.v), !.err = TRUE]
             ELSE IF d.err
             THEN [v EXCEPT !.sentBytes = b.v, !.sentPkt = Int64(p.v),
                            !.droppedPkt = Int64(d.v), !.err = TRUE]
             ELSE IF o.err
             THEN [v EXCEPT !.sentBytes = b.v, !.sentPkt = Int64(p.v),
                            !.droppedPkt = Int64(d.v),
                            !.overLimitPkt = Int64(o.v), !.err = TRUE]
             ELSE [v EXCEPT !.sentBytes = b.v, !.sentPkt = Int64(p.v),
                            !.droppedPkt = Int64(d.v),
                            !.overLimitPkt = Int64(o.v), !.haveData = TRUE]

\* fmt.Sprintf("%s:%s:%s", ifaceName, FormatInt(qdiscHandle, 10), FormatInt(classHandle, 10))
tcNameOf(ifaceName, qdiscHandle, classHandle) ==
    ifaceName \o ":" \o FormatInt(qdiscHandle) \o ":" \o FormatInt(classHandle)

\* The parsedData built from the local variables; userClass is a pointer.
parsedDataOf(tcName, v, userClass) ==
    [name |-> tcName, sentBytes |-> v.sentBytes, sentPkt |-> v.sentPkt,
     droppedPkt |-> v.droppedPkt, overLimitPkt |-> v.overLimitPkt,
     userClass |-> userClass]

\* &fakeSnmp{}: the snmpHandler of the tests, which counts the calls of lock,
\* unlock and erase and keeps the data it is given.
fakeSnmp == [lockCount |-> 0, unlockCount |-> 0, eraseCount |-> 0, data |-> <<>>]

\* fakeSnmp.lock
fakeSnmp_lock(fs) == [fs EXCEPT !.lockCount = @ + 1]

\* fakeSnmp.unlock
fakeSnmp_unlock(fs) == [fs EXCEPT !.unlockCount = @ + 1]

\* fakeSnmp.erase
fakeSnmp_erase(fs) == [fs EXCEPT !.eraseCount = @ + 1]

\* fakeSnmp.addData
fakeSnmp_addData(fs, data) == [fs EXCEPT !.data = Append(@, data)]

\* t.snmp.addData(data), where t.snmp is the snmp or a fakeSnmp.
snmpHandler_addData(s, data) ==
    IF "eraseCount" \in DOMAIN s THEN fakeSnmp_addData(s, data) ELSE addData(s, data)

\* Variant of storeData: a name that is mapped to a user is stored for the user
\* only.  C22 tells the two apart.
storeData_UserOnly(s, v, ifaceName, userNameClass) ==
    LET tcName == tcNameOf(ifaceName, v.qdiscHandle, v.classHandle)
    IN  IF tcName \in DOMAIN userNameClass
        THEN snmpHandler_addData(s, parsedDataOf(tcName, v, <<userNameClass[tcName]>>))
        ELSE snmpHandler_addData(s, parsedDataOf(tcName, v, <<>>))

\* parseData, the store branch for one line: the calls of t.snmp.addData.
storeData(s, v, ifaceName, userNameClass) ==
    LET tcName == tcNameOf(ifaceName, v.qdiscHandle, v.classHandle)
        s1 == snmpHandler_addData(s, parsedDataOf(tcName, v, <<>>))
    IN  IF tcName \in DOMAIN userNameClass
        THEN snmpHandler_addData(s1, parsedDataOf(tcName, v, <<userNameClass[tcName]>>))
        ELSE s1

\* tcParser.parseData from line i of cmdOutput on: the fields of snmp after
\* it, the local variables and whether an error is returned.
RECURSIVE parseLines(_, _, _, _, _, _, _)
parseLines(s, cmdOutput, ifaceName, reHeader, userNameClass, v, i) ==
    IF i > Len(cmdOutput) THEN [s |-> s, v |-> v, err |-> FALSE]
    ELSE LET v1 == parseHeader(v, cmdOutput[i], reHeader)
             v2 == parseStats(v1, cmdOutput[i])
         IN  IF v1.err THEN [s |-> s, v |-> v1, err |-> TRUE]
             ELSE IF v2.err THEN [s |-> s, v |-> v2, err |-> TRUE]
             ELSE IF v2.haveHeader /\ v2.haveData
             THEN parseLines(storeData(s, v2, ifaceName, userNameClass),
                             cmdOutput, ifaceName, reHeader, userNameClass,
                             [v2 EXCEPT !.haveHeader = FALSE, !.haveData = FALSE],
                             i + 1)
             ELSE parseLines(s, cmdOutput, ifaceName, reHeader, userNameClass, v2, i + 1)

\* tcParser.parseData
parseData(s, cmdOutput, ifaceName, reHeader, userNameClass) ==
    parseLines(s, cmdOutput, ifaceName, reHeader, userNameClass, parseDataLocals, 1)

----------------------------------------------------------------------------
(* The configuration and the inputs of the model.                           *)

\* TcParserOptions; a slice field is <<>> when it is nil and <<slice>> when it
\* is a slice, which may have no element.
\* The options main passes on from a config file that defines one user,
\* whose upload class is 2:3, and nothing else.
MainOptions ==
    [TcCmdPath |-> "", TcQdiscStats |-> <<>>, TcClassStats |-> <<>>, Ifaces |-> <<>>,
     UserNameClass |-> ("eth0:2:3" :> [direction |-> uploadDirection, name |-> "user1"])]

\* TcParserOptions.tcCmdPath(): the configured path or the default.
tcCmdPath(o) == IF o.TcCmdPath # "" THEN o.TcCmdPath ELSE "/sbin/tc"

\* TcParserOptions.tcQdiscStats(): the configured arguments if the field is
\* not nil, else the default.
tcQdiscStats(o) ==
    IF o.TcQdiscStats # <<>> THEN o.TcQdiscStats[1] ELSE <<"-s", "qdisc", "show", "dev">>

\* TcParserOptions.tcClassStats(): the configured arguments if the field is
\* not nil, else the default.
tcClassStats(o) ==
    IF o.TcClassStats # <<>> THEN o.TcClassStats[1] ELSE <<"-s", "class", "show", "dev">>

\* TcParserOptions.ifaces(): the configured interfaces if the field is not
\* nil, else the default.
ifaces(o) == IF o.Ifaces # <<>> THEN o.Ifaces[1] ELSE <<"eth0">>

\* TcParserOptions.userNameClass(): the configured users or an empty map.
userNameClass(o) == o.UserNameClass

\* No output: strings.Split("", "\n") is the one empty line, which matches no
\* regular expression.
NoOutput == <<OtherLine>>

\* What the Qdisc statistics command may put out.
QdiscOutputs ==
    { <<QdiscHeader("1"), StatsLine("8165477580", "5927092", "49112", "0"), OtherLine>>,
      <<QdiscHeader("fffffffff"), StatsLine("1", "1", "1", "1")>> }

\* What the Class statistics command may put out.
ClassOutputs ==
    { <<ClassHeader("2", "3"), StatsLine("2147483648", "10", "0", "0"), OtherLine>>,
      <<ClassHeader("2", "1"), StatsLine("9", "1", "0", "0"),
        ClassHeader("2", "3"), StatsLine("1", "2147483648", "0", "0")>> }

\* The lines snmpTalker.getLine may return where Listen reads a command that
\* is none of the empty line, PING, get and getnext.
OtherCommands == {"set"}

\* The lines snmpTalker.getLine may return where Listen reads an OID.
OIDLines ==
    { myOID, LeafOID(tcNumIndexLeaf), IndexOID(overLimitPktLeaf, 1),
      IndexOID(tcUserUpOverLimitPktLeaf, 1), LeafOID(tcUserUpOverLimitPktLeaf),
      ".1.3.7", emptyLine }

----------------------------------------------------------------------------
(* The state of snmp as a record, and the state machine.                    *)

snmpFields == [oidData |-> oidData, oids |-> oids,
               tcLastNameIndex |-> tcLastNameIndex, nameToIndex |-> nameToIndex,
               tcLastUserIndex |-> tcLastUserIndex, userToIndex |-> userToIndex]

\* The fields of snmp are those of the record s.
SnmpIs(s) ==
    /\ oidData = s.oidData
    /\ oids = s.oids
    /\ tcLastNameIndex = s.tcLastNameIndex
    /\ nameToIndex = s.nameToIndex
    /\ tcLastUserIndex = s.tcLastUserIndex
    /\ userToIndex = s.userToIndex

\* The fields of snmp take the values of the record s.
SetSnmp(s) ==
    /\ oidData' = s.oidData
    /\ oids' = s.oids
    /\ tcLastNameIndex' = s.tcLastNameIndex
    /\ nameToIndex' = s.nameToIndex
    /\ tcLastUserIndex' = s.tcLastUserIndex
    /\ userToIndex' = s.userToIndex

snmpVars == <<oidData, oids, tcLastNameIndex, nameToIndex, tcLastUserIndex, userToIndex>>
parserVars == <<ppc, ifaceIdx, qdiscOutput, classOutput, options, fsn, calls>>
listenVars == <<lpc, command, oid, written>>

\* Variant of mutexFree: Lock never waits.  C1 tells the two apart.
mutexFree_Always(m) == TRUE

\* sync.Mutex: Lock returns only when the mutex is not held.
mutexFree(m) == m = "free"

\* main after NewSnmp: erase has run; NewTcParser is about to call start,
\* whose first step is the initial parseTc.
Init ==
    /\ SnmpIs(erase)
    /\ l = "free"
    /\ ppc = "lock"
    /\ ifaceIdx = 0
    /\ qdiscOutput = <<>>
    /\ classOutput = <<>>
    /\ lpc = "main"
    /\ command = emptyLine
    /\ oid = emptyLine
    /\ written = <<>>
    /\ released = erase
    /\ options = MainOptions
    /\ fsn = fakeSnmp
    /\ calls = <<>>

----------------------------------------------------------------------------
(* tcParser.parseTc, step by step.  It runs once in start, called by        *)
(* NewTcParser before main calls Listen, and then on every tick in the       *)
(* goroutine start leaves behind.  os.Exit ends that goroutine too.          *)

\* The record of one call t.executer.Execute(name, arg...) and of whether it
\* returned an error.
ExecuteCall(name, arg, failed) == <<"Execute", name, arg, failed>>

\* The record of one call t.parseData(cmdOutput, ifaceName, reHeader, reStats)
\* and of whether it returned an error.
ParseDataCall(cmdOutput, ifaceName, reHeader, failed) ==
    <<"parseData", cmdOutput, ifaceName, reHeader, failed>>

\* The record of one call t.logger.Err(message); step is what the message says
\* failed: the TC command, the Qdisc statistics or the Class statistics.
ErrCall(step) == <<"Err", step>>

\* executeTc: qdiscStats := append(t.options.tcQdiscStats(), iface)
qdiscStats(o, iface) == Append(tcQdiscStats(o), iface)

\* Variant of clasStats: the Qdisc arguments are passed a second time.  C20
\* tells the two apart.
clasStats_QdiscAgain(o, iface) == Append(tcQdiscStats(o), iface)

\* executeTc: clasStats := append(t.options.tcClassStats(), iface)
clasStats(o, iface) == Append(tcClassStats(o), iface)

\* t.snmp.lock()
ParseTcLock ==
    /\ ppc = "lock" /\ lpc # "exited"
    /\ mutexFree(l)
    /\ l' = "parser"
    /\ ppc' = "erase"
    /\ calls' = Append(calls, <<"lock">>)
    /\ UNCHANGED <<snmpVars, ifaceIdx, qdiscOutput, classOutput, options, fsn, listenVars, released>>

\* Variant of ParseTcErase: the data of the cycle before are kept.  C31 tells
\* the two apart.
ParseTcErase_KeepsData ==
    /\ ppc = "erase" /\ lpc # "exited"
    /\ ifaceIdx' = 1
    /\ ppc' = IF Len(ifaces(options)) >= 1 THEN "executeQdisc" ELSE "unlock"
    /\ calls' = Append(calls, <<"erase">>)
    /\ UNCHANGED <<l, snmpVars, qdiscOutput, classOutput, options, fsn, listenVars, released>>

\* Variant of ParseTcErase: the entries are erased, the indexes given to names
\* and users in the cycle before are kept.  C32 tells the two apart.
ParseTcErase_KeepsIndexes ==
    /\ ppc = "erase" /\ lpc # "exited"
    /\ oidData' = erase.oidData
    /\ oids' = erase.oids
    /\ ifaceIdx' = 1
    /\ ppc' = IF Len(ifaces(options)) >= 1 THEN "executeQdisc" ELSE "unlock"
    /\ calls' = Append(calls, <<"erase">>)
    /\ UNCHANGED <<l, tcLastNameIndex, nameToIndex, tcLastUserIndex, userToIndex,
                   qdiscOutput, classOutput, options, fsn, listenVars, released>>

\* t.snmp.erase(), and the range loop over ifaces() begins.
ParseTcErase ==
    /\ ppc = "erase" /\ lpc # "exited"
    /\ SetSnmp(erase)
    /\ ifaceIdx' = 1
    /\ ppc' = IF Len(ifaces(options)) >= 1 THEN "executeQdisc" ELSE "unlock"
    /\ calls' = Append(calls, <<"erase">>)
    /\ UNCHANGED <<l, qdiscOutput, classOutput, options, fsn, listenVars, released>>

\* executeTc: the Qdisc statistics command returns an error; executeTc
\* returns emptyString, emptyString and the error, and parseTc logs it and
\* returns.
ExecuteQdiscError ==
    /\ ppc = "executeQdisc" /\ lpc # "exited"
    /\ ppc' = "unlock"
    /\ calls' = calls \o
                << ExecuteCall(tcCmdPath(options),
                               qdiscStats(options, ifaces(options)[ifaceIdx]), TRUE),
                   ErrCall("TC command") >>
    /\ qdiscOutput' = NoOutput
    /\ classOutput' = NoOutput
    /\ UNCHANGED <<l, snmpVars, ifaceIdx, options, fsn, listenVars, released>>

\* executeTc: the Qdisc statistics command returns its output.
ExecuteQdisc(outputs) ==
    /\ ppc = "executeQdisc" /\ lpc # "exited"
    /\ \E out \in outputs : qdiscOutput' = out
    /\ ppc' = "executeClass"
    /\ calls' = Append(calls, ExecuteCall(tcCmdPath(options),
                                          qdiscStats(options, ifaces(options)[ifaceIdx]), FALSE))
    /\ UNCHANGED <<l, snmpVars, ifaceIdx, classOutput, options, fsn, listenVars, released>>

\* Variant of ExecuteClassError: parseTc returns without the deferred unlock.
\* C18 tells the two apart.
ExecuteClassError_WithoutUnlock ==
    /\ ppc = "executeClass" /\ lpc # "exited"
    /\ ppc' = IF lpc = "main" THEN "started" ELSE "tick"
    /\ calls' = calls \o
                << ExecuteCall(tcCmdPath(options),
                               clasStats(options, ifaces(options)[ifaceIdx]), TRUE),
                   ErrCall("TC command") >>
    /\ qdiscOutput' = NoOutput
    /\ classOutput' = NoOutput
    /\ UNCHANGED <<l, snmpVars, ifaceIdx, options, fsn, listenVars, released>>

\* executeTc: the Class statistics command returns an error; executeTc
\* returns emptyString, emptyString and the error, and parseTc logs it and
\* returns.
ExecuteClassError ==
    /\ ppc = "executeClass" /\ lpc # "exited"
    /\ ppc' = "unlock"
    /\ calls' = calls \o
                << ExecuteCall(tcCmdPath(options),
                               clasStats(options, ifaces(options)[ifaceIdx]), TRUE),
                   ErrCall("TC command") >>
    /\ qdiscOutput' = NoOutput
    /\ classOutput' = NoOutput
    /\ UNCHANGED <<l, snmpVars, ifaceIdx, options, fsn, listenVars, released>>

\* executeTc: the Class statistics command returns its output.
ExecuteClass(outputs) ==
    /\ ppc = "executeClass" /\ lpc # "exited"
    /\ \E out \in outputs : classOutput' = out
    /\ ppc' = "parseQdisc"
    /\ calls' = Append(calls, ExecuteCall(tcCmdPath(options),
                                          clasStats(options, ifaces(options)[ifaceIdx]), FALSE))
    /\ UNCHANGED <<l, snmpVars, ifaceIdx, qdiscOutput, options, fsn, listenVars, released>>

\* Variant of ParseQdisc: on an error parseTc logs it and goes on to the Class
\* statistics.  C19 tells the two apart.
ParseQdisc_GoesOnAfterError ==
    /\ ppc = "parseQdisc" /\ lpc # "exited"
    /\ LET iface == ifaces(options)[ifaceIdx]
           r == parseData(snmpFields, qdiscOutput, iface, "qdisc", userNameClass(options))
           call == ParseDataCall(qdiscOutput, iface, "qdisc", r.err)
       IN  /\ SetSnmp(r.s)
           /\ ppc' = "parseClass"
           /\ calls' = IF r.err
                       THEN calls \o <<call, ErrCall("Qdisc statistics")>>
                       ELSE Append(calls, call)
    /\ UNCHANGED <<l, ifaceIdx, qdiscOutput, classOutput, options, fsn, listenVars, released>>

\* t.parseData(qdiscOutput, iface, t.reQdiscHeader, t.reStats); on an error
\* parseTc logs it and returns.
ParseQdisc ==
    /\ ppc = "parseQdisc" /\ lpc # "exited"
    /\ LET iface == ifaces(options)[ifaceIdx]
           r == parseData(snmpFields, qdiscOutput, iface, "qdisc", userNameClass(options))
           call == ParseDataCall(qdiscOutput, iface, "qdisc", r.err)
       IN  /\ SetSnmp(r.s)
           /\ ppc' = IF r.err THEN "unlock" ELSE "parseClass"
           /\ calls' = IF r.err
                       THEN calls \o <<call, ErrCall("Qdisc statistics")>>
                       ELSE Append(calls, call)
    /\ UNCHANGED <<l, ifaceIdx, qdiscOutput, classOutput, options, fsn, listenVars, released>>

\* t.parseData(classOutput, iface, t.reClassHeader, t.reStats); on an error
\* parseTc logs it and returns, otherwise the range loop goes on to the next
\* interface or ends.
ParseClass ==
    /\ ppc = "parseClass" /\ lpc # "exited"
    /\ LET iface == ifaces(options)[ifaceIdx]
           r == parseData(snmpFields, classOutput, iface, "class", userNameClass(options))
           call == ParseDataCall(classOutput, iface, "class", r.err)
       IN  /\ SetSnmp(r.s)
           /\ IF ~r.err /\ ifaceIdx < Len(ifaces(options))
              THEN ifaceIdx' = ifaceIdx + 1 /\ ppc' = "executeQdisc"
              ELSE ifaceIdx' = ifaceIdx /\ ppc' = "unlock"
           /\ calls' = IF r.err
                       THEN calls \o <<call, ErrCall("Class statistics")>>
                       ELSE Append(calls, call)
    /\ UNCHANGED <<l, qdiscOutput, classOutput, options, fsn, listenVars, released>>

\* The deferred t.snmp.unlock(): sortOIDs, then s.l.Unlock().  The initial
\* parseTc returns into start, every other one into the ticker loop.
ParseTcUnlock ==
    /\ ppc = "unlock" /\ lpc # "exited"
    /\ SetSnmp(unlock(snmpFields))
    /\ released' = unlock(snmpFields)
    /\ l' = "free"
    /\ ppc' = IF lpc = "main" THEN "started" ELSE "tick"
    /\ calls' = Append(calls, <<"unlock">>)
    /\ UNCHANGED <<ifaceIdx, qdiscOutput, classOutput, options, fsn, listenVars>>

\* Variant of Start: the initial parseTc runs in the goroutine, and start
\* returns before it.  C27 tells the two apart.
Start_BeforeParseTc ==
    /\ ppc = "lock" /\ lpc = "main"
    /\ lpc' = "read"
    /\ UNCHANGED <<l, snmpVars, ppc, ifaceIdx, qdiscOutput, classOutput, options, fsn, calls,
                   command, oid, written, released>>

\* start spawns the ticker goroutine and returns; NewTcParser returns and
\* main calls Listen.
Start ==
    /\ ppc = "started" /\ lpc = "main"
    /\ ppc' = "tick"
    /\ lpc' = "read"
    /\ UNCHANGED <<l, snmpVars, ifaceIdx, qdiscOutput, classOutput, options, fsn, calls,
                   command, oid, written, released>>

\* Variant of Tick: a tick that comes while a command has not returned cancels
\* the cycle and starts the next one.  C26 tells the two apart.
Tick_CancelsCommand ==
    /\ ppc \in {"tick", "executeQdisc", "executeClass"} /\ lpc # "exited"
    /\ ppc' = "lock"
    /\ l' = IF ppc = "tick" THEN l ELSE "free"
    /\ calls' = <<>>
    /\ UNCHANGED <<snmpVars, ifaceIdx, qdiscOutput, classOutput, options, fsn,
                   listenVars, released>>

\* Variant of Tick: every tick starts a parseTc of its own, also while the
\* parseTc of the tick before has not returned.  C37 tells the two apart.
Tick_StartsConcurrentCycle ==
    /\ ppc \in {"tick", "erase", "executeQdisc", "executeClass", "parseQdisc",
                "parseClass", "unlock"}
    /\ lpc # "exited"
    /\ ppc' = "lock"
    /\ calls' = <<>>
    /\ UNCHANGED <<l, snmpVars, ifaceIdx, qdiscOutput, classOutput, options, fsn,
                   listenVars, released>>

\* time.Tick delivers a tick and the loop calls parseTc.
Tick ==
    /\ ppc = "tick" /\ lpc # "exited"
    /\ ppc' = "lock"
    /\ calls' = <<>>
    /\ UNCHANGED <<l, snmpVars, ifaceIdx, qdiscOutput, classOutput, options, fsn,
                   listenVars, released>>

----------------------------------------------------------------------------
(* snmp.Listen, step by step.                                               *)

\* getLine returns the empty line: Listen returns.
ListenExit ==
    /\ lpc = "read"
    /\ command' = emptyLine
    /\ written' = <<>>
    /\ lpc' = "exit"
    /\ UNCHANGED <<l, snmpVars, parserVars, oid, released>>

\* Variant of ListenPing: PONG is put under the lock of the stored data.
\* C15 tells the two apart.
ListenPing_UnderLock ==
    /\ lpc = "read"
    /\ mutexFree(l)
    /\ command' = pingRequst
    /\ written' = <<pingResponse>>
    /\ lpc' = "read"
    /\ UNCHANGED <<l, snmpVars, parserVars, oid, released>>

\* getLine returns PING: PONG is put.
ListenPing ==
    /\ lpc = "read"
    /\ command' = pingRequst
    /\ written' = <<pingResponse>>
    /\ lpc' = "read"
    /\ UNCHANGED <<l, snmpVars, parserVars, oid, released>>

\* Variant of ListenCommand: the lock is taken when the command is read, before
\* the OID line.  C38 tells the two apart.
ListenCommand_LocksFirst ==
    /\ lpc = "read"
    /\ mutexFree(l)
    /\ l' = "listen"
    /\ \E c \in {getCommand, getNextCommand} : command' = c
    /\ written' = <<>>
    /\ lpc' = "oid"
    /\ UNCHANGED <<snmpVars, parserVars, oid, released>>

\* getLine returns get or getnext: the OID is read next.
ListenCommand ==
    /\ lpc = "read"
    /\ \E c \in {getCommand, getNextCommand} : command' = c
    /\ written' = <<>>
    /\ lpc' = "oid"
    /\ UNCHANGED <<l, snmpVars, parserVars, oid, released>>

\* Variant of ListenDefault: Listen returns after the empty line is put.
\* C16 tells the two apart.
ListenDefault_Returns ==
    /\ lpc = "read"
    /\ \E c \in OtherCommands : command' = c
    /\ written' = <<emptyLine>>
    /\ lpc' = "exit"
    /\ UNCHANGED <<l, snmpVars, parserVars, oid, released>>

\* getLine returns any other line: the empty line is put.
ListenDefault ==
    /\ lpc = "read"
    /\ \E c \in OtherCommands : command' = c
    /\ written' = <<emptyLine>>
    /\ lpc' = "read"
    /\ UNCHANGED <<l, snmpVars, parserVars, oid, released>>

\* Variant of ListenGetOID: Listen returns when the OID line is empty.  C17
\* tells the two apart.
ListenGetOID_ReturnsOnEmpty(lines) ==
    /\ lpc = "oid"
    /\ \E o \in lines : oid' = o /\ lpc' = IF o = emptyLine THEN "exit" ELSE "lock"
    /\ UNCHANGED <<l, snmpVars, parserVars, command, written, released>>

\* oid := s.snmpTalker.getLine(), one of lines.
ListenGetOID(lines) ==
    /\ lpc = "oid"
    /\ \E o \in lines : oid' = o
    /\ lpc' = "lock"
    /\ UNCHANGED <<l, snmpVars, parserVars, command, written, released>>

\* s.l.Lock() of snmpGet and snmpGetNext.
SnmpLock ==
    /\ lpc = "lock"
    /\ mutexFree(l)
    /\ l' = "listen"
    /\ lpc' = "locked"
    /\ UNCHANGED <<snmpVars, parserVars, command, oid, written, released>>

\* Variant of SnmpGet: the answer is put and the lock is not released.  C36
\* tells the two apart.
SnmpGet_KeepsLock ==
    /\ lpc = "locked" /\ command = getCommand
    /\ written' = snmpGet(snmpFields, oid)
    /\ released' = snmpFields
    /\ lpc' = "read"
    /\ UNCHANGED <<l, snmpVars, parserVars, command, oid>>

\* snmpGet after Lock, with its deferred s.l.Unlock().
SnmpGet ==
    /\ lpc = "locked" /\ command = getCommand
    /\ written' = snmpGet(snmpFields, oid)
    /\ l' = "free"
    /\ released' = snmpFields
    /\ lpc' = "read"
    /\ UNCHANGED <<snmpVars, parserVars, command, oid>>

\* Variant of SnmpGetNext: the OID that was asked is taken out of s.oids once
\* it is answered.  C39 tells the two apart.
SnmpGetNext_DropsOID ==
    /\ lpc = "locked" /\ command = getNextCommand
    /\ written' = snmpGetNext(snmpFields, oid)
    /\ oids' = SelectSeq(oids, LAMBDA k : k # oid)
    /\ l' = "free"
    /\ released' = snmpFields
    /\ lpc' = "read"
    /\ UNCHANGED <<oidData, tcLastNameIndex, nameToIndex, tcLastUserIndex, userToIndex,
                   parserVars, command, oid>>

\* snmpGetNext after Lock, with its deferred s.l.Unlock().
SnmpGetNext ==
    /\ lpc = "locked" /\ command = getNextCommand
    /\ written' = snmpGetNext(snmpFields, oid)
    /\ l' = "free"
    /\ released' = snmpFields
    /\ lpc' = "read"
    /\ UNCHANGED <<snmpVars, parserVars, command, oid>>

\* main after Listen has returned: os.Exit(0).
Exit ==
    /\ lpc = "exit"
    /\ lpc' = "exited"
    /\ UNCHANGED <<l, snmpVars, parserVars, command, oid, written, released>>

Next ==
    \/ ParseTcLock \/ ParseTcErase
    \/ ExecuteQdiscError \/ ExecuteQdisc(QdiscOutputs)
    \/ ExecuteClassError \/ ExecuteClass(ClassOutputs)
    \/ ParseQdisc \/ ParseClass \/ ParseTcUnlock
    \/ Start \/ Tick
    \/ ListenExit \/ ListenPing \/ ListenCommand \/ ListenDefault
    \/ ListenGetOID(OIDLines)
    \/ SnmpLock \/ SnmpGet \/ SnmpGetNext
    \/ Exit

Spec == Init /\ [][Next]_vars

\* parseTc does not stay at the position p for ever, unless the process has
\* exited.  The step that leaves p is enabled exactly while ppc = p and the
\* process runs, and no other step ends that, so this is weak fairness of
\* that step, written without the step.
Leaves(p) == []<>(ppc # p \/ lpc = "exited")

\* What the scheduling gives: a goroutine that can take a step takes it, so
\* parseTc, once it holds the lock, goes on to its unlock provided every
\* command returns, with its output or with an error; snmpGet and snmpGetNext
\* go on from Lock to Unlock; and a Lock that waits is granted at one of the
\* times the mutex is free.
Fairness ==
    /\ WF_vars(ParseTcErase)
    /\ WF_vars(ExecuteQdiscError \/ ExecuteQdisc(QdiscOutputs))
    /\ WF_vars(ExecuteClassError \/ ExecuteClass(ClassOutputs))
    /\ Leaves("parseQdisc")
    /\ Leaves("parseClass")
    /\ Leaves("unlock")
    /\ SF_vars(SnmpLock)
    /\ WF_vars(SnmpGet)
    /\ WF_vars(SnmpGetNext)

SpecLive == Init /\ [][Next]_vars /\ Fairness
----------------------------------------------------------------------------
(* Listen alone, on stored data as TestSnmpListen prepares them: lock,      *)
(* erase, addData for each parsedData of a list, unlock; then Listen.       *)

MaxData == 2

\* The parsedData a list is drawn from.
SampleData == {
    [name |-> "eth0:1:3", sentBytes |-> "9", sentPkt |-> "10",
     droppedPkt |-> "2147483647", overLimitPkt |-> "2147483648", userClass |-> <<>>],
    [name |-> "eth0:1:3", sentBytes |-> "11", sentPkt |-> "12",
     droppedPkt |-> "13", overLimitPkt |-> "14", userClass |-> <<>>],
    [name |-> "eth0:1:0", sentBytes |-> "2147483649", sentPkt |-> "4294967294",
     droppedPkt |-> "9007199254740991", overLimitPkt |-> "9223372036854775807",
     userClass |-> <<>>],
    [name |-> "eth0:2:3", sentBytes |-> "1", sentPkt |-> "2",
     droppedPkt |-> "3", overLimitPkt |-> "4",
     userClass |-> <<[direction |-> uploadDirection, name |-> "username"]>>],
    [name |-> "eth1:2:3", sentBytes |-> "5", sentPkt |-> "6",
     droppedPkt |-> "7", overLimitPkt |-> "8",
     userClass |-> <<[direction |-> downloadDirection, name |-> "username"]>>],
    [name |-> "eth1:2:4", sentBytes |-> "2147483648", sentPkt |-> "6",
     droppedPkt |-> "7", overLimitPkt |-> "8",
     userClass |-> <<[direction |-> downloadDirection, name |-> "other"]>>] }

DataLists == UNION {[1..n -> SampleData] : n \in 0..MaxData}

\* s.addData(data) for each data of the list p, from position i on.
RECURSIVE addAll(_, _, _)
addAll(s, p, i) == IF i > Len(p) THEN s ELSE addAll(addData(s, p[i]), p, i + 1)

\* The OID lines Listen may read: every OID the store can hold with up to
\* MaxData indexes, an OID it never holds and the empty line.
AllOIDLines ==
    {myOID, ".1.3.7", emptyLine}
    \cup {LeafOID(leaf) : leaf \in tcIndexLeaf..tcUserUpOverLimitPktLeaf}
    \cup {IndexOID(leaf, i) : leaf \in tcIndexLeaf..tcUserUpOverLimitPktLeaf, i \in 1..MaxData}

InitListen ==
    /\ \E p \in DataLists :
          LET s == unlock(addAll(erase, p, 1))
          IN  SnmpIs(s) /\ released = s
    /\ l = "free"
    /\ ppc = "tick"
    /\ ifaceIdx = 0
    /\ qdiscOutput = <<>>
    /\ classOutput = <<>>
    /\ lpc = "read"
    /\ command = emptyLine
    /\ oid = emptyLine
    /\ written = <<>>
    /\ options = MainOptions
    /\ fsn = fakeSnmp
    /\ calls = <<>>

NextListen ==
    \/ ListenExit \/ ListenPing \/ ListenCommand \/ ListenDefault
    \/ ListenGetOID(AllOIDLines)
    \/ SnmpLock \/ SnmpGet \/ SnmpGetNext

SpecListen == InitListen /\ [][NextListen]_vars

----------------------------------------------------------------------------
(* The sorter alone, as TestOidSorter runs it: sort.Sort on a list of OIDs. *)

MaxPathLen == 2
MaxListLen == 2

\* The components the OIDs of a list are made of.
PathComponents == {"0", "9", "2147483648"}

RECURSIVE PathsOfLen(_)
PathsOfLen(n) ==
    IF n = 0 THEN {""}
    ELSE {p \o "." \o c : p \in PathsOfLen(n - 1), c \in PathComponents}

Paths == UNION {PathsOfLen(n) : n \in 1..MaxPathLen}

\* The list TestOidSorter sorts.
TestOidSorterOids == <<
    ".1.3.6.1.4.1.2021.255.13", ".1.3.6.1.4.1.2021.255",
    ".1.3.6.1.4.1.2021.255.1", ".1.3.6.1.4.1.2021.255.3",
    ".1.3.6.1.4.1.2021.255.10", ".1.3.6.1.4.1.2021.255.5",
    ".1.3.6.1.4.1.2021.255.6", ".1.3.6.1.4.1.2021.255.7",
    ".1.3.6.1.4.1.2021.255.8", ".1.3.6.1.4.1.2021.255.10.1",
    ".1.3.6.1.4.1.2021.255.11", ".1.3.6.1.4.1.2021.255.11.1",
    ".1.3.6.1.4.1.2021.255.12", ".1.3.6.1.4.1.2021.255.12.1",
    ".1.3.6.1.4.1.2021.255.8.1", ".1.3.6.1.4.1.2021.255.4",
    ".1.3.6.1.4.1.2021.255.13.1", ".1.3.6.1.4.1.2021.255.14",
    ".1.3.6.1.4.1.2021.255.14.1", ".1.3.6.1.4.1.2021.255.15",
    ".1.3.6.1.4.1.2021.255.15.1", ".1.3.6.1.4.1.2021.255.16",
    ".1.3.6.1.4.1.2021.255.16.1", ".1.3.6.1.4.1.2021.255.17",
    ".1.3.6.1.4.1.2021.255.17.1", ".1.3.6.1.4.1.2021.255.18",
    ".1.3.6", ".1.3.6.1.4.1.2021.255.9", ".1.3.254" >>

\* Lists of two and of three OIDs among which Less leaves some unordered: a
\* path with and without trailing components 0, and components at and above
\* 2^31 - 1.
OidTriples ==
    UNION {[1..n -> {".9", ".9.0", ".9.0.0", ".10", ".2147483647", ".2147483648"}] :
           n \in 2..3}

OidLists ==
    {TestOidSorterOids} \cup OidTriples \cup UNION {[1..n -> Paths] : n \in 0..MaxListLen}

InitSorter ==
    /\ oids \in OidLists
    /\ oidData = EmptyMap
    /\ tcLastNameIndex = 0
    /\ nameToIndex = EmptyMap
    /\ tcLastUserIndex = 0
    /\ userToIndex = EmptyMap
    /\ l = "free"
    /\ ppc = "sort"
    /\ ifaceIdx = 0
    /\ qdiscOutput = <<>>
    /\ classOutput = <<>>
    /\ lpc = "main"
    /\ command = emptyLine
    /\ oid = emptyLine
    /\ written = <<>>
    /\ released = snmpFields
    /\ options = MainOptions
    /\ fsn = fakeSnmp
    /\ calls = <<>>

\* sort.Sort(sorter)
SortOIDs ==
    /\ ppc = "sort"
    /\ oids' = sortOIDs(oids)
    /\ ppc' = "sorted"
    /\ UNCHANGED <<l, oidData, tcLastNameIndex, nameToIndex, tcLastUserIndex,
                   userToIndex, ifaceIdx, qdiscOutput, classOutput, listenVars, released,
                   options, fsn, calls>>

NextSorter == SortOIDs

SpecSorter == InitSorter /\ [][NextSorter]_vars


----------------------------------------------------------------------------
(* The stored data alone, as TestSnmpAddData runs it on one snmp: for each  *)
(* test case lock, erase, addData for each parsedData of the case, unlock.  *)
(* ifaceIdx counts the parsedData added since the erase.                    *)

\* The parsedData of the test cases: two samples of one class, a sample of
\* another class and a sample of either direction of one user.
StoreData ==
    {data \in SampleData : data.name \in {"eth0:1:3", "eth0:1:0", "eth0:2:3", "eth1:2:3"}}

\* s := &snmp{...}: every field of the stored data has its zero value.
InitStore ==
    /\ oidData = EmptyMap
    /\ oids = <<>>
    /\ tcLastNameIndex = 0
    /\ nameToIndex = EmptyMap
    /\ tcLastUserIndex = 0
    /\ userToIndex = EmptyMap
    /\ l = "free"
    /\ ppc = "lock"
    /\ ifaceIdx = 0
    /\ qdiscOutput = <<>>
    /\ classOutput = <<>>
    /\ lpc = "main"
    /\ command = emptyLine
    /\ oid = emptyLine
    /\ written = <<>>
    /\ released = snmpFields
    /\ options = MainOptions
    /\ fsn = fakeSnmp
    /\ calls = <<>>

\* s.lock()
StoreLock ==
    /\ ppc = "lock"
    /\ mutexFree(l)
    /\ l' = "parser"
    /\ ppc' = "erase"
    /\ UNCHANGED <<snmpVars, ifaceIdx, qdiscOutput, classOutput, listenVars, released, options, fsn, calls>>

\* s.erase()
StoreErase ==
    /\ ppc = "erase"
    /\ SetSnmp(erase)
    /\ ifaceIdx' = 0
    /\ ppc' = "addData"
    /\ UNCHANGED <<l, qdiscOutput, classOutput, listenVars, released, options, fsn, calls>>

\* s.addData(data) for the next parsedData of the test case.
StoreAddData ==
    /\ ppc = "addData"
    /\ ifaceIdx < MaxData
    /\ \E data \in StoreData : SetSnmp(addData(snmpFields, data))
    /\ ifaceIdx' = ifaceIdx + 1
    /\ UNCHANGED <<l, ppc, qdiscOutput, classOutput, listenVars, released, options, fsn, calls>>

\* s.unlock() after the last parsedData of the test case; the next test
\* case follows.
StoreUnlock ==
    /\ ppc = "addData"
    /\ SetSnmp(unlock(snmpFields))
    /\ released' = unlock(snmpFields)
    /\ l' = "free"
    /\ ppc' = "lock"
    /\ UNCHANGED <<ifaceIdx, qdiscOutput, classOutput, listenVars, options, fsn, calls>>

NextStore == StoreLock \/ StoreErase \/ StoreAddData \/ StoreUnlock

SpecStore == InitStore /\ [][NextStore]_vars
----------------------------------------------------------------------------
(* The parser alone: start runs the initial parseTc and leaves the ticker    *)
(* goroutine behind, while Listen waits for a line that does not come.  The *)
(* parser is built from one of several TcParserOptions, and the commands    *)
(* fail, put out statistics or put out nothing, the cases of                *)
(* TestTcParserParse.                                                       *)

\* The options the parser may be built from: two interfaces in either order
\* with the default command or a configured one, one interface with argument
\* slices that have no element, and a slice of interfaces without element.
ParserOptions ==
    { [TcCmdPath |-> "", TcQdiscStats |-> <<>>, TcClassStats |-> <<>>,
       Ifaces |-> << <<"eth0", "eth1">> >>,
       UserNameClass |-> ("eth1:2:3" :> [direction |-> downloadDirection, name |-> "user1"])],
      [TcCmdPath |-> "/usr/sbin/tc",
       TcQdiscStats |-> << <<"-s", "-d", "qdisc", "ls", "dev">> >>,
       TcClassStats |-> << <<"-s", "-d", "class", "ls", "dev">> >>,
       Ifaces |-> << <<"eth1", "eth0">> >>,
       UserNameClass |-> EmptyMap],
      [TcCmdPath |-> "", TcQdiscStats |-> << <<>> >>, TcClassStats |-> << <<>> >>,
       Ifaces |-> <<>>, UserNameClass |-> EmptyMap],
      [TcCmdPath |-> "", TcQdiscStats |-> <<>>, TcClassStats |-> <<>>,
       Ifaces |-> << <<>> >>, UserNameClass |-> EmptyMap] }

\* What the Qdisc statistics command may put out, no output included.
ParserQdiscOutputs == QdiscOutputs \cup {NoOutput}

\* What the Class statistics command may put out, no output included.
ParserClassOutputs == ClassOutputs \cup {NoOutput}

\* NewSnmp has run, and NewTcParser, given one of ParserOptions, is about to
\* call start.
InitParser ==
    /\ SnmpIs(erase)
    /\ l = "free"
    /\ ppc = "lock"
    /\ ifaceIdx = 0
    /\ qdiscOutput = <<>>
    /\ classOutput = <<>>
    /\ lpc = "main"
    /\ command = emptyLine
    /\ oid = emptyLine
    /\ written = <<>>
    /\ released = erase
    /\ options \in ParserOptions
    /\ fsn = fakeSnmp
    /\ calls = <<>>

NextParser ==
    \/ ParseTcLock \/ ParseTcErase
    \/ ExecuteQdiscError \/ ExecuteQdisc(ParserQdiscOutputs)
    \/ ExecuteClassError \/ ExecuteClass(ParserClassOutputs)
    \/ ParseQdisc \/ ParseClass \/ ParseTcUnlock
    \/ Start \/ Tick

SpecParser == InitParser /\ [][NextParser]_vars

----------------------------------------------------------------------------
(* One parseTc on a fakeSnmp and a fakeExecuter, as TestTcParserParse has   *)
(* it: lock, erase, the two commands, parseData of the two outputs, unlock. *)
(* The fakeSnmp counts the calls and keeps the parsedData it is given; next *)
(* to it the same calls of parseData are made on the snmp after erase.      *)

\* The longest command output, in lines.
MaxLines == 3

\* The lines a command output is made of.
SampleLines ==
    { QdiscHeader("2"), QdiscHeader("1f"),
      ClassHeader("2", "3"), ClassHeader("a", "10"),
      StatsLine("12548819", "124105", "13", "25"),
      StatsLine("9223372036854775807", "2147483647", "0", "2147483648"),
      OtherLine }

\* The command outputs of at most MaxLines lines.
SampleOutputs == UNION {[1..n -> SampleLines] : n \in 1..MaxLines}

\* The options of the test cases: the interface eth0, and no class or one
\* class or two classes of a user.
ParseDataOptions ==
    { [TcCmdPath |-> "", TcQdiscStats |-> <<>>, TcClassStats |-> <<>>,
       Ifaces |-> << <<"eth0">> >>, UserNameClass |-> unc] :
      unc \in { EmptyMap,
                ("eth0:2:3" :> [direction |-> uploadDirection, name |-> "username"]),
                ("eth0:2:0" :> [direction |-> downloadDirection, name |-> "username"]) @@
                ("eth0:10:16" :> [direction |-> uploadDirection, name |-> "username"]) } }

\* The two outputs the fakeExecuter returns: one command output and an
\* empty one, in either order, and the outputs of a Qdisc and of a Class
\* together.
TestOutputs ==
    {<<out, NoOutput>> : out \in SampleOutputs}
    \cup {<<NoOutput, out>> : out \in SampleOutputs}
    \cup {<< <<QdiscHeader("2"), StatsLine("12548819", "124105", "13", "25")>>,
              <<ClassHeader("2", "3"), StatsLine("12548819", "124105", "13", "25")>> >>}

\* A parser built on a fakeSnmp, and an snmp without data.
InitParseData ==
    /\ SnmpIs(erase)
    /\ l = "free"
    /\ ppc = "lock"
    /\ ifaceIdx = 1
    /\ qdiscOutput = <<>>
    /\ classOutput = <<>>
    /\ lpc = "main"
    /\ command = emptyLine
    /\ oid = emptyLine
    /\ written = <<>>
    /\ released = erase
    /\ options \in ParseDataOptions
    /\ fsn = fakeSnmp
    /\ calls = <<>>

\* parseTc: t.snmp.lock() with t.snmp the fakeSnmp.
TestLock ==
    /\ ppc = "lock"
    /\ fsn' = fakeSnmp_lock(fsn)
    /\ ppc' = "erase"
    /\ UNCHANGED <<l, snmpVars, ifaceIdx, qdiscOutput, classOutput, options, calls,
                   listenVars, released>>

\* parseTc: t.snmp.erase() with t.snmp the fakeSnmp.
TestErase ==
    /\ ppc = "erase"
    /\ fsn' = fakeSnmp_erase(fsn)
    /\ ppc' = "execute"
    /\ UNCHANGED <<l, snmpVars, ifaceIdx, qdiscOutput, classOutput, options, calls,
                   listenVars, released>>

\* parseTc: t.executeTc(iface) where the fakeExecuter returns the two outputs
\* without error.
TestExecute ==
    /\ ppc = "execute"
    /\ \E outs \in TestOutputs : qdiscOutput' = outs[1] /\ classOutput' = outs[2]
    /\ LET iface == ifaces(options)[ifaceIdx]
       IN  calls' = calls \o
                    << ExecuteCall(tcCmdPath(options), qdiscStats(options, iface), FALSE),
                       ExecuteCall(tcCmdPath(options), clasStats(options, iface), FALSE) >>
    /\ ppc' = "parseQdisc"
    /\ UNCHANGED <<l, snmpVars, ifaceIdx, options, fsn, listenVars, released>>

\* parseTc: t.executeTc(iface) where the fakeExecuter returns an error for the
\* Qdisc command (classFailed is FALSE) or for the Class command; executeTc
\* returns emptyString, emptyString and the error, and parseTc logs it and
\* returns.
TestExecuteError(classFailed) ==
    /\ ppc = "execute"
    /\ qdiscOutput' = NoOutput
    /\ classOutput' = NoOutput
    /\ LET iface == ifaces(options)[ifaceIdx]
           qdisc == ExecuteCall(tcCmdPath(options), qdiscStats(options, iface), ~classFailed)
           class == ExecuteCall(tcCmdPath(options), clasStats(options, iface), TRUE)
       IN  calls' = IF classFailed
                    THEN calls \o <<qdisc, class, ErrCall("TC command")>>
                    ELSE calls \o <<qdisc, ErrCall("TC command")>>
    /\ ppc' = "unlock"
    /\ UNCHANGED <<l, snmpVars, ifaceIdx, options, fsn, listenVars, released>>

\* parseTc: t.parseData(cmdOutput, iface, reHeader, t.reStats) with t.snmp the
\* fakeSnmp and with t.snmp the snmp; on an error parseTc logs it and returns.
TestParseData(reHeader) ==
    /\ ppc = (IF reHeader = "qdisc" THEN "parseQdisc" ELSE "parseClass")
    /\ LET iface == ifaces(options)[ifaceIdx]
           cmdOutput == IF reHeader = "qdisc" THEN qdiscOutput ELSE classOutput
           rf == parseData(fsn, cmdOutput, iface, reHeader, userNameClass(options))
           r == parseData(snmpFields, cmdOutput, iface, reHeader, userNameClass(options))
           call == ParseDataCall(cmdOutput, iface, reHeader, r.err)
           step == IF reHeader = "qdisc" THEN "Qdisc statistics" ELSE "Class statistics"
       IN  /\ fsn' = rf.s
           /\ SetSnmp(r.s)
           /\ calls' = IF r.err THEN calls \o <<call, ErrCall(step)>>
                       ELSE Append(calls, call)
           /\ ppc' = IF ~r.err /\ reHeader = "qdisc" THEN "parseClass" ELSE "unlock"
    /\ UNCHANGED <<l, ifaceIdx, qdiscOutput, classOutput, options, listenVars, released>>

\* parseTc: the deferred t.snmp.unlock() with t.snmp the fakeSnmp; parseTc
\* returns into the test.
TestUnlock ==
    /\ ppc = "unlock"
    /\ fsn' = fakeSnmp_unlock(fsn)
    /\ ppc' = "parsed"
    /\ UNCHANGED <<l, snmpVars, ifaceIdx, qdiscOutput, classOutput, options, calls,
                   listenVars, released>>

NextParseData ==
    \/ TestLock \/ TestErase
    \/ TestExecute \/ TestExecuteError(FALSE) \/ TestExecuteError(TRUE)
    \/ TestParseData("qdisc") \/ TestParseData("class")
    \/ TestUnlock

SpecParseData == InitParseData /\ [][NextParseData]_vars


----------------------------------------------------------------------------
(* The parser alone, with command outputs that end with a header line and   *)
(* no stats line, or begin with a stats line and no header line.            *)

\* What the Qdisc statistics command may put out: a header line alone, a
\* header line and its stats line, a stats line alone.
PendingQdiscOutputs ==
    { <<QdiscHeader("2")>>,
      <<QdiscHeader("2"), StatsLine("12548819", "124105", "13", "25")>>,
      <<StatsLine("12548819", "124105", "13", "25")>> }

\* What the Class statistics command may put out: a stats line and then a
\* header line, a header line and its stats line, a stats line alone.
PendingClassOutputs ==
    { <<StatsLine("9", "1", "0", "0"), ClassHeader("a", "10")>>,
      <<ClassHeader("a", "10"), StatsLine("9", "1", "0", "0")>>,
      <<StatsLine("9", "1", "0", "0")>> }

NextPending ==
    \/ ParseTcLock \/ ParseTcErase
    \/ ExecuteQdiscError \/ ExecuteQdisc(PendingQdiscOutputs)
    \/ ExecuteClassError \/ ExecuteClass(PendingClassOutputs)
    \/ ParseQdisc \/ ParseClass \/ ParseTcUnlock
    \/ Start \/ Tick

SpecPending == InitParser /\ [][NextPending]_vars
----------------------------------------------------------------------------
(* Properties of the rebuild cycle and the queries (Spec).                  *)

\* parseTc holds the lock: it is past lock() and its unlock() is still due.
InRebuild ==
    ppc \in {"erase", "executeQdisc", "executeClass", "parseQdisc", "parseClass", "unlock"}

\* No later element of the list is Less than an earlier one.
IsSorted(list) ==
    LET parts == <<>> \o [i \in 1..Len(list) |-> IntParts(list[i])]
    IN  \A i, j \in 1..Len(list) : i < j => ~LessParts(parts[j], parts[i])

\* C1: no get or getnext runs between the start of a rebuild (lock taken,
\* erase) and the release of the lock by that rebuild: whenever snmpGet or
\* snmpGetNext holds the lock and reads, no parseTc is between its lock and
\* its unlock, and the fields of snmp it reads are those that existed at the
\* last release of the lock.
C1_QueriesSeeReleasedState ==
    lpc = "locked" => (~InRebuild /\ l = "listen" /\ snmpFields = released)

\* C1, its case: a query holds the lock and reads parsed data while the next
\* parseTc waits at its lock().
C1_Witness ==
    lpc = "locked" /\ ppc = "lock" /\ tcLastNameIndex > 0

\* C2: whenever get or getnext reads the stored data, oids is in the order
\* of Less: no later OID is Less than an earlier one.
C2_SortedWhenRead ==
    lpc = "locked" => IsSorted(oids)

\* C2, its case: a query reads after a cycle that an error aborted after the
\* first class of the Class statistics had been stored.
C2_Witness ==
    /\ lpc = "locked"
    /\ "eth0:2:1" \in DOMAIN nameToIndex
    /\ "eth0:2:3" \notin DOMAIN nameToIndex

----------------------------------------------------------------------------
(* Properties of get and getnext (SpecListen).                              *)

\* The keys stored: the OIDs that occur in oids.
StoredKeys == {oids[i] : i \in 1..Len(oids)}

\* Listen has answered the command c for the OID line oid and is about to
\* read the next command.
Answered(c) == lpc = "read" /\ command = c

\* The position in oids of the least stored key that the key k is Less than,
\* and 0 when k is Less than no stored key.
Successor(k) ==
    LET parts == <<>> \o [i \in 1..Len(oids) |-> IntParts(oids[i])]
        kp == IntParts(k)
        after == {i \in 1..Len(oids) : LessParts(kp, parts[i])}
    IN  IF after = {} THEN 0
        ELSE CHOOSE i \in after : \A j \in after : ~LessParts(parts[j], parts[i])

\* The value of a stored entry as text: the literal string, the digits of an
\* integer, the digits of a counter after its rotation.
ValueText(d) ==
    CASE d.objectType = "string" -> d.objectValue.v
      [] d.objectType = "integer" -> FormatInt(d.objectValue.v)
      [] d.objectType = "counter" -> FormatInt(rotated(d.objectValue.v))

\* The three lines that answer with the entry stored under the key k.
EntryLines(k) == <<k, oidData[k].objectType, ValueText(oidData[k])>>

\* C3: getnext(key) answers with the entry of the immediate successor of key
\* among the stored keys, in three lines (successor key, kind, value), and
\* with one blank line when key is not stored or is the last stored key.
C3_GetNextAnswersSuccessor ==
    Answered(getNextCommand) =>
        written = IF oid \notin StoredKeys \/ Successor(oid) = 0
                  THEN <<emptyLine>>
                  ELSE EntryLines(oids[Successor(oid)])

\* C3, its case: getnext for the index-count key, which two generic names
\* have each written, is answered with the three lines of its successor.
C3_Witness ==
    /\ Answered(getNextCommand)
    /\ oid = LeafOID(tcNumIndexLeaf)
    /\ tcLastNameIndex = 2
    /\ written = <<LeafOID(tcNameLeaf), "string", "tcNameLeaf">>

\* The next distinct key after k in oids: the first element other than k
\* after the first occurrence of k; <<>> when there is none.
NextDistinct(k) ==
    LET first == CHOOSE p \in 1..Len(oids) :
                     oids[p] = k /\ \A q \in 1..(p - 1) : oids[q] # k
        later == {p \in (first + 1)..Len(oids) : oids[p] # k}
    IN  IF later = {} THEN <<>>
        ELSE <<oids[CHOOSE p \in later : \A q \in later : p <= q]>>

\* C4: for stored keys k and k', k' the next distinct key after k in sorted
\* order, the three lines answered to getnext(k) are exactly the three lines
\* answered to get(k').
C4_GetNextIsGetOfNext ==
    (Answered(getNextCommand) /\ oid \in StoredKeys /\ NextDistinct(oid) # <<>>) =>
        /\ Len(written) = 3
        /\ written = snmpGet(snmpFields, NextDistinct(oid)[1])

\* C4, its case: getnext for the last header is answered with the counter
\* stored after it.
C4_Witness ==
    /\ Answered(getNextCommand)
    /\ oid = LeafOID(tcUserUpOverLimitPktLeaf)
    /\ written = <<IndexOID(tcUserUpOverLimitPktLeaf, 1), "counter", "4">>

\* C5: get(key) for a stored key writes exactly three lines: the key, the
\* kind name (string, integer or counter) and the formatted value (the
\* literal text of a string, the base-10 digits of an integer); for a key
\* that is not stored it writes exactly one blank line; and it does not end
\* the loop: Listen goes on to read the next command.
C5_GetAnswers ==
    command = getCommand =>
        /\ lpc \in {"oid", "lock", "locked", "read"}
        /\ lpc = "read" =>
              IF oid \in StoredKeys
              THEN /\ Len(written) = 3
                   /\ written[1] = oid
                   /\ written[2] = oidData[oid].objectType
                   /\ written[2] \in {"string", "integer", "counter"}
                   /\ written[3] = ValueText(oidData[oid])
              ELSE written = <<emptyLine>>

\* C5, its case: get for the index entry of the second generic name is
\* answered with its three lines.
C5_Witness ==
    /\ Answered(getCommand)
    /\ written = <<IndexOID(tcIndexLeaf, 2), "integer", "2">>

\* The value stored under the counter OID that get has just answered.
AnsweredCounter ==
    IF Answered(getCommand) /\ oid \in StoredKeys /\ oidData[oid].objectType = "counter"
    THEN <<oidData[oid].objectValue.v>>
    ELSE <<>>

\* C6: a counter is emitted modulo 2^31: the stored value 2^31 as "0", the
\* stored value 2^31 + 1 as "1" and the stored value 9 as "9".  (printData
\* rotates at math.MaxInt32 = 2^31 - 1: get answers "1" for 2^31.)
C6_Modulo2Pow31 ==
    /\ AnsweredCounter = <<"2147483648">> => written[3] = "0"
    /\ AnsweredCounter = <<"2147483649">> => written[3] = "1"
    /\ AnsweredCounter = <<"9">> => written[3] = "9"

\* v mod (2^31 - 1) for the counter values of SampleData, written out.
ModMaxInt32Digits(v) ==
    CASE v = "2147483647" -> "0"
      [] v = "2147483648" -> "1"
      [] v = "2147483649" -> "2"
      [] v = "4294967294" -> "0"
      [] v = "9007199254740991" -> "4194303"
      [] Len(v) < 10 -> v

\* C7: a counter whose stored value is math.MaxInt32 is emitted by get as
\* "0" and one whose stored value is math.MaxInt32 + 1 as "1"; for every
\* stored value v with 0 <= v < 2^53 the digits emitted are v mod (2^31 - 1).
C7_CounterModMaxInt32 ==
    AnsweredCounter # <<>> /\ NumeralLeq(AnsweredCounter[1], "9007199254740991") =>
        /\ Len(written) = 3
        /\ written[3] = ModMaxInt32Digits(AnsweredCounter[1])

\* C7, its case: get for a counter that holds math.MaxInt32 has been
\* answered with "0".
C7_Witness ==
    /\ AnsweredCounter = <<"2147483647">>
    /\ written = <<oid, "counter", "0">>

----------------------------------------------------------------------------
(* Properties of Less and of the sort (SpecSorter).                         *)

\* Two components are the same number; a component is a decimal numeral.
SameNumber(x, y) == StripZeros(x) = StripZeros(y)

\* The component x is a smaller number than the component y.
NumberLess(x, y) == ~SameNumber(x, y) /\ NumeralLeq(StripZeros(x), StripZeros(y))

\* The path with components pa is a prefix of the path with components pb.
IsPrefix(pa, pb) ==
    Len(pa) <= Len(pb) /\ \A x \in 1..Len(pa) : SameNumber(pa[x], pb[x])

\* The first position at which two paths, neither a prefix of the other, differ.
FirstDifference(pa, pb) ==
    CHOOSE x \in 1..Len(pa) :
        ~SameNumber(pa[x], pb[x]) /\ \A y \in 1..(x - 1) : SameNumber(pa[y], pb[y])

\* The path a is to sort before the path b, at positions i and j of oids:
\* Less(a, b) and not Less(b, a), and after the sort a stands before b.
SortsBefore(i, j) ==
    /\ Less(oids[i], oids[j])
    /\ ~Less(oids[j], oids[i])
    /\ ppc = "sorted" => i < j

\* C8: of two dotted numeric paths neither of which is a prefix of the
\* other, the one with the numerically smaller component at the first
\* position where they differ sorts first, and sorting a list yields that order.
C8_FirstDifferenceDecides ==
    \A i, j \in 1..Len(oids) :
        LET pa == Split(oids[i])
            pb == Split(oids[j])
        IN  (/\ ~IsPrefix(pa, pb)
             /\ ~IsPrefix(pb, pa)
             /\ NumberLess(pa[FirstDifference(pa, pb)], pb[FirstDifference(pa, pb)]))
            => SortsBefore(i, j)

\* C9: of two dotted numeric paths one of which is a proper prefix of the
\* other, the shorter sorts strictly before the longer, whatever the extra
\* components of the longer are (0 included).
C9_PrefixSortsFirst ==
    \A i, j \in 1..Len(oids) :
        LET pa == Split(oids[i])
            pb == Split(oids[j])
        IN  (IsPrefix(pa, pb) /\ Len(pa) < Len(pb)) => SortsBefore(i, j)

\* C10: Less is a total order over dotted numeric paths: for two distinct
\* paths a and b exactly one of Less(a, b) and Less(b, a) holds.
C10_TotalOrder ==
    \A i, j \in 1..Len(oids) :
        oids[i] # oids[j] => (Less(oids[i], oids[j]) <=> ~Less(oids[j], oids[i]))


----------------------------------------------------------------------------
(* Properties of the stored data (SpecStore).                               *)

\* C11: in every reachable state the set of the keys that occur in oids
\* equals the set of the keys of oidData.
C11_KeysMatchEntries == StoredKeys = DOMAIN oidData

\* C11, its case: after an erase that cleared the data of two names, a
\* generic and a user parsedData have been added.
C11_Witness ==
    /\ ppc = "addData" /\ ifaceIdx = 2
    /\ tcLastNameIndex = 1 /\ tcLastUserIndex = 1
    /\ released.tcLastNameIndex = 2

\* C12: oids never holds the same key twice, after any sequence of erase
\* and addData calls.
C12_NoDuplicateKeys ==
    \A i, j \in 1..Len(oids) : i # j => oids[i] # oids[j]

\* The number of times the key k occurs in oids.
Occurrences(k) == Cardinality({i \in 1..Len(oids) : oids[i] = k})

\* C13: addData of a generic parsedData whose name already has an index
\* uses that index: it allocates nothing, leaves tcLastNameIndex, the name
\* map and the index-count entry unchanged, and overwrites the four counter
\* entries of that index with its own values, every other entry kept.
C13_SameNameReusesIndex ==
    ppc = "addData" =>
        \A data \in SampleData :
            (data.userClass = <<>> /\ data.name \in DOMAIN nameToIndex) =>
                LET s == addData(snmpFields, data)
                    index == nameToIndex[data.name]
                    counters == (IndexOID(sentBytesLeaf, index) :> data.sentBytes)
                             @@ (IndexOID(sentPktLeaf, index) :> data.sentPkt)
                             @@ (IndexOID(droppedPktLeaf, index) :> data.droppedPkt)
                             @@ (IndexOID(overLimitPktLeaf, index) :> data.overLimitPkt)
                IN  /\ s.tcLastNameIndex = tcLastNameIndex
                    /\ s.nameToIndex = nameToIndex
                    /\ s.tcLastUserIndex = tcLastUserIndex
                    /\ s.userToIndex = userToIndex
                    /\ DOMAIN s.oidData = DOMAIN oidData
                    /\ s.oidData[LeafOID(tcNumIndexLeaf)] = oidData[LeafOID(tcNumIndexLeaf)]
                    /\ \A k \in DOMAIN oidData :
                          IF k \in DOMAIN counters
                          THEN s.oidData[k] = [oid |-> k, objectType |-> "counter",
                                               objectValue |-> Int64Value(counters[k])]
                          ELSE s.oidData[k] = oidData[k]

\* C13, its case: the name eth0:1:3 has been added twice since the erase,
\* with sentBytes 9 and then with sentBytes 11.
C13_Witness ==
    /\ ppc = "addData" /\ ifaceIdx = 2
    /\ nameToIndex = ("eth0:1:3" :> 1)
    /\ tcLastNameIndex = 1
    /\ oidData[LeafOID(tcNumIndexLeaf)].objectValue = IntValue(1)
    /\ Occurrences(IndexOID(sentBytesLeaf, 1)) = 2
    /\ oidData[IndexOID(sentBytesLeaf, 1)].objectValue = Int64Value("11")

\* The keys of the fixed header entries: the root and the leaves 1, 3 to 8
\* and 10 to 18 below it.
HeaderKeys ==
    {".1.3.6.1.4.1.2021.255"}
    \cup {".1.3.6.1.4.1.2021.255." \o FormatInt(n) : n \in {1} \cup (3..8) \cup (10..18)}

\* C14: right after erase, whatever the state before, the stored data are
\* exactly the header entries, each a string, the root that of myName; both
\* index maps are empty and both counters 0; get of any other key, the keys
\* of the previous cycle and the count keys included, is not found.
C14_EraseLeavesHeaders ==
    (ppc = "addData" /\ ifaceIdx = 0) =>
        /\ DOMAIN oidData = HeaderKeys
        /\ StoredKeys = HeaderKeys
        /\ Len(oids) = Cardinality(HeaderKeys)
        /\ \A k \in HeaderKeys :
              oidData[k].oid = k /\ oidData[k].objectType = "string"
        /\ oidData[".1.3.6.1.4.1.2021.255"].objectValue = StringValue("tc_reader by mumak@")
        /\ nameToIndex = EmptyMap /\ userToIndex = EmptyMap
        /\ tcLastNameIndex = 0 /\ tcLastUserIndex = 0
        /\ \A k \in (AllOIDLines \cup DOMAIN released.oidData) \ HeaderKeys :
              snmpGet(snmpFields, k) = <<emptyLine>>

\* C14, its case: erase has run on the data of a generic name and a user.
C14_Witness ==
    /\ ppc = "addData" /\ ifaceIdx = 0
    /\ released.tcLastNameIndex = 1 /\ released.tcLastUserIndex = 1
    /\ LeafOID(tcNumIndexLeaf) \in DOMAIN released.oidData
    /\ LeafOID(tcNumIndexLeaf) \notin DOMAIN oidData

----------------------------------------------------------------------------
(* Properties of the Listen loop next to the rebuild cycle (Spec).          *)

\* Listen takes a step: it reads a line or answers.
ListenStep == <<lpc, command, oid, written>>' # <<lpc, command, oid, written>>

\* C15: every PING read as a command is answered with exactly the one line
\* PONG, whatever is stored, in a step that neither takes the lock nor
\* touches the stored data; and whenever Listen is about to read a command,
\* a rebuild in progress included, that step can be taken.
C15_PingAnswered ==
    /\ [](lpc = "read" => ENABLED ListenPing)
    /\ [][(lpc = "read" /\ command' = "PING" /\ ListenStep) =>
             /\ written' = <<"PONG">>
             /\ lpc' = "read"
             /\ UNCHANGED <<l, snmpVars>>]_vars

\* C15, its case: PING has been answered and parseTc holds the lock, its
\* rebuild in progress.
C15_Witness ==
    /\ lpc = "read" /\ command = "PING" /\ written = <<"PONG">>
    /\ InRebuild /\ l = "parser"
    /\ released.tcLastNameIndex > 0

\* C16: a command other than the empty line, PING, get and getnext is
\* answered with exactly one empty line, in a step that does not end the
\* loop and does not touch the stored data; the next line is read as a
\* command.
C16_UnknownCommand ==
    [][(lpc = "read" /\ command' \notin {"", "PING", "get", "getnext"} /\ ListenStep) =>
          /\ written' = <<"">>
          /\ lpc' = "read"
          /\ UNCHANGED <<l, snmpVars>>]_vars

\* C16, its case: the command set has been answered with one empty line
\* and Listen reads the next command, with parsed data stored.
C16_Witness ==
    /\ lpc = "read" /\ command = "set" /\ written = <<"">>
    /\ tcLastNameIndex > 0

\* C17: Listen returns when, and only when, the empty line is read as a
\* command, and puts nothing for it; the empty line read as the OID of get
\* or getnext is answered as an OID that is not stored, with one empty
\* line, and Listen goes on.
C17_ExitOnEmptyCommand ==
    /\ [][(lpc = "read" /\ command' = "" /\ ListenStep) => lpc' = "exit"]_vars
    /\ [][(lpc # "exit" /\ lpc' = "exit") =>
             (lpc = "read" /\ command' = "" /\ written' = <<>>)]_vars
    /\ []((command \in {"get", "getnext"} /\ oid = "") =>
             /\ lpc \in {"oid", "lock", "locked", "read"}
             /\ lpc = "read" => written = <<"">>)

\* C17, its case: getnext with the empty line as its OID has been answered
\* with one empty line and Listen reads the next command.
C17_Witness ==
    /\ lpc = "read" /\ command = "getnext" /\ oid = "" /\ written = <<"">>
    /\ tcLastNameIndex > 0
----------------------------------------------------------------------------
(* The rebuild cycle: what one parseTc calls, and in which order.           *)

\* The name of the i-th call of the cycle.
CallOp(i) == calls[i][1]

\* The positions in calls of the calls of one name.
CallsOf(op) == {i \in DOMAIN calls : CallOp(i) = op}

\* parseTc has returned and no tick has come since.
CycleFinished == ppc \in {"started", "tick"}

\* The cycle was aborted: an error was logged.
CycleAborted == CallsOf("Err") # {}

\* C18: a rebuild cycle locks once, then erases once, then executes and
\* parses, then unlocks once, in this order; the data is erased and written
\* under the lock only and is sorted when the lock is released.  This holds
\* for the cycle an error aborts and for the cycle whose commands put out
\* nothing as well.
C18_LockEraseWritesUnlock ==
    /\ []( /\ CallsOf("lock") = {1} \cap DOMAIN calls
           /\ CallsOf("erase") = {2} \cap DOMAIN calls
           /\ \A i \in DOMAIN calls :
                  i > 2 => \/ CallOp(i) \in {"Execute", "parseData", "Err"}
                           \/ CallOp(i) = "unlock" /\ i = Len(calls)
           /\ CycleFinished <=> CallsOf("unlock") # {}
           /\ l = "parser" <=> (CallsOf("lock") # {} /\ CallsOf("unlock") = {})
           /\ Len(calls) = 2 => SnmpIs(erase)
           /\ CycleFinished => IsSorted(oids) /\ released = snmpFields )
    /\ [][snmpFields' # snmpFields =>
             /\ l = "parser" /\ CallsOf("lock") = {1}
             /\ Len(calls') > Len(calls)
             /\ calls'[Len(calls')][1] \in {"erase", "parseData", "Err", "unlock"}]_vars

\* A cycle that wrote data and was then aborted by an error has finished.
C18_Witness ==
    /\ CycleFinished /\ CycleAborted
    /\ \E i \in CallsOf("parseData") : ~calls[i][5]
    /\ tcLastNameIndex > 0
    /\ calls[Len(calls)] = <<"unlock">>

\* The i-th call of the cycle returned an error.
CallFailed(i) ==
    \/ CallOp(i) = "Execute" /\ calls[i][4]
    \/ CallOp(i) = "parseData" /\ calls[i][5]

\* The message parseTc logs when the i-th call has failed.
ErrAfter(i) ==
    IF CallOp(i) = "Execute" THEN ErrCall("TC command")
    ELSE IF calls[i][4] = "qdisc" THEN ErrCall("Qdisc statistics")
    ELSE ErrCall("Class statistics")

\* What the store holds, whatever the order of its keys.
StoredData == <<oidData, tcLastNameIndex, nameToIndex, tcLastUserIndex, userToIndex>>

\* C19: after the first failed command or failed parse of a cycle the error
\* is logged and nothing follows in the cycle but the release of the lock:
\* no command is executed, no output is parsed, nothing is written to the
\* store, the failed step is not tried again; the parser then waits for the
\* next tick as after a complete cycle, and the tick starts a new cycle.
C19_AbortOnFirstError ==
    /\ [](\A i \in DOMAIN calls :
              /\ CallFailed(i) =>
                     /\ i + 1 \in DOMAIN calls /\ calls[i + 1] = ErrAfter(i)
                     /\ \A j \in DOMAIN calls : j > i + 1 => calls[j] = <<"unlock">> /\ j = i + 2
              /\ CallOp(i) = "Err" => i > 1 /\ CallFailed(i - 1))
    /\ []((CycleAborted /\ ~CycleFinished) => (ppc = "unlock" /\ l = "parser"))
    /\ []((CycleAborted /\ CycleFinished) => (l = "free" /\ (ppc = "tick" => ENABLED Tick)))
    /\ [][CycleAborted => StoredData' = StoredData]_vars
    /\ [][(ppc = "tick" /\ ppc' # "tick") => (ppc' = "lock" /\ calls' = <<>> /\ l' = l)]_vars
    /\ []((ppc = "lock" /\ l = "free" /\ lpc # "exited") => ENABLED ParseTcLock)

\* The Class statistics of the second interface failed to parse after data
\* had been written; the cycle has ended and the parser waits for the tick.
C19_Witness ==
    /\ ppc = "tick" /\ l = "free"
    /\ Len(calls) = 12
    /\ calls[10] = ParseDataCall(classOutput, ifaces(options)[2], "class", TRUE)
    /\ calls[11] = ErrCall("Class statistics")
    /\ calls[12] = <<"unlock">>
    /\ tcLastNameIndex > 1

\* A call is a call of t.executer.Execute.
IsExecute(c) == c[1] = "Execute"

\* The calls of Execute of the cycle, in their order.
ExecuteCalls == SelectSeq(calls, IsExecute)

\* The arguments of the k-th Execute of a cycle: for the interfaces in their
\* configured order, the Qdisc arguments and then the Class arguments, each
\* followed by the name of the interface.
ExpectedArg(k) ==
    LET iface == ifaces(options)[(k + 1) \div 2]
    IN  IF k % 2 = 1 THEN tcQdiscStats(options) \o <<iface>>
                     ELSE tcClassStats(options) \o <<iface>>

\* C20: a cycle without errors executes the command twice for every
\* configured interface, in the order of the interfaces, first with the Qdisc
\* arguments and the interface name, then with the Class arguments and the
\* interface name; nothing is executed after a failed execution, so the
\* Class command of an interface is not run when its Qdisc command failed.
C20_TwoCommandsPerInterface ==
    /\ Len(ExecuteCalls) <= 2 * Len(ifaces(options))
    /\ \A k \in DOMAIN ExecuteCalls :
           /\ ExecuteCalls[k][2] = tcCmdPath(options)
           /\ ExecuteCalls[k][3] = ExpectedArg(k)
           /\ ExecuteCalls[k][4] => k = Len(ExecuteCalls)
    /\ (CycleFinished /\ ~CycleAborted) => Len(ExecuteCalls) = 2 * Len(ifaces(options))

\* A cycle over two interfaces has finished without an error, with the
\* configured command and with output for the second interface.
C20_Witness ==
    /\ CycleFinished /\ ~CycleAborted
    /\ Len(ifaces(options)) = 2
    /\ Len(ExecuteCalls) = 4
    /\ ExecuteCalls[4] = ExecuteCall("/usr/sbin/tc", <<"-s", "-d", "class", "ls", "dev", "eth0">>, FALSE)
    /\ ExecuteCalls[1] = ExecuteCall("/usr/sbin/tc", <<"-s", "-d", "qdisc", "ls", "dev", "eth1">>, FALSE)
    /\ tcLastNameIndex > 0

----------------------------------------------------------------------------
(* Properties of parseData (SpecParseData).                                 *)

\* The calls of parseData that parseTc has made.
IsParseData(c) == c[1] = "parseData"
ParseDataCalls == SelectSeq(calls, IsParseData)

\* parseTc has returned after parseData, and one of the two command outputs
\* was empty: the Samples are those of the other output alone.
Parsed ==
    /\ ppc = "parsed"
    /\ ParseDataCalls # <<>>
    /\ qdiscOutput = NoOutput \/ classOutput = NoOutput

\* The output the Samples come from, the regular expression its header
\* lines had to match, and whether parseData returned an error (the call
\* that fails is the last one parseTc makes).
ParsedOutput == IF qdiscOutput = NoOutput THEN classOutput ELSE qdiscOutput
ParsedHeader == IF qdiscOutput = NoOutput THEN "class" ELSE "qdisc"
ParsedFailed == ParseDataCalls[Len(ParseDataCalls)][5]

\* The hexadecimal handles of SampleLines, written in decimal.
HandleInDecimal ==
    ("2" :> "2") @@ ("1f" :> "31") @@ ("3" :> "3") @@ ("a" :> "10") @@ ("10" :> "16")

\* The name of the Sample of a header line: <interface>:<handle>:<child
\* handle>, the child handle of a Qdisc being 0.
SampleName(iface, header) ==
    iface \o ":" \o HandleInDecimal[header.groups[2]] \o ":" \o
    (IF header.re = "class" THEN HandleInDecimal[header.groups[3]] ELSE "0")

\* The Sample of a header line and a stats line: the four values as they are
\* written on the stats line.
SampleOf(iface, header, stats, userClass) ==
    [name |-> SampleName(iface, header),
     sentBytes |-> stats.groups[1], sentPkt |-> stats.groups[2],
     droppedPkt |-> stats.groups[3], overLimitPkt |-> stats.groups[4],
     userClass |-> userClass]

\* The Samples without userClass among those the fakeSnmp was given.
IsGeneric(data) == data.userClass = <<>>
GenericSamples == SelectSeq(fsn.data, IsGeneric)

\* C21: an output of one header line followed by one stats line gives exactly
\* one Sample without userClass, named <interface>:<handle>:<child handle> in
\* decimal and carrying the four values of the stats line.  (A stats line
\* with a packet value of 2^31 or more makes parseData fail and gives none.)
C21_OneSamplePerHeaderAndStats ==
    (/\ Parsed
     /\ Len(ParsedOutput) = 2
     /\ ParsedOutput[1].re = ParsedHeader
     /\ ParsedOutput[2].re = "stats")
    => GenericSamples = <<SampleOf("eth0", ParsedOutput[1], ParsedOutput[2], <<>>)>>

\* The Sample with the userClass the name of the generic Sample is mapped to.
UserSampleOf(data) ==
    [data EXCEPT !.userClass = <<userNameClass(options)[data.name]>>]

\* C22: a generic Sample whose name is a key of the user-class mapping is
\* followed at once by one Sample of the same name and counters that carries
\* the mapped userClass, and by none when the name is not a key; a Sample with
\* a userClass never comes without its generic Sample right before it.  A line
\* of the output causes at most two Samples, and the snmp stores the Samples
\* with a userClass as user data and the others as generic data.
C22_UserSampleFollowsGeneric ==
    Parsed =>
        /\ \A i \in DOMAIN fsn.data :
               LET data == fsn.data[i]
               IN  IF IsGeneric(data)
                   THEN IF data.name \in DOMAIN userNameClass(options)
                        THEN i + 1 \in DOMAIN fsn.data /\ fsn.data[i + 1] = UserSampleOf(data)
                        ELSE i + 1 \in DOMAIN fsn.data => IsGeneric(fsn.data[i + 1])
                   ELSE /\ i > 1 /\ IsGeneric(fsn.data[i - 1])
                        /\ data = UserSampleOf(fsn.data[i - 1])
        /\ Len(fsn.data) <= 2 * Len(ParsedOutput)
        /\ tcLastNameIndex = Cardinality({GenericSamples[i].name : i \in DOMAIN GenericSamples})
        /\ (tcLastUserIndex > 0) <=> (Len(GenericSamples) < Len(fsn.data))

\* The Class output of class a:10, which is mapped to a user, has given the
\* generic Sample eth0:10:16 and then the Sample of the user.
C22_Witness ==
    /\ Parsed /\ ~ParsedFailed /\ ParsedHeader = "class"
    /\ ParsedOutput[1] = ClassHeader("a", "10")
    /\ Len(fsn.data) = 2
    /\ fsn.data[1].name = "eth0:10:16" /\ fsn.data[1].userClass = <<>>
    /\ fsn.data[2].name = "eth0:10:16"
    /\ fsn.data[2].userClass = <<[direction |-> uploadDirection, name |-> "username"]>>
    /\ tcLastUserIndex = 1 /\ tcLastNameIndex = 1

\* C24: a stats line whose four values are decimal integers within the signed
\* 64-bit range is parsed without error, and the Sample and the stored counter
\* entries hold exactly those values.  (Every value of SampleLines is within
\* that range.)
C24_ValuesKeptIn64Bits ==
    (/\ Parsed
     /\ Len(ParsedOutput) = 2
     /\ ParsedOutput[1].re = ParsedHeader
     /\ ParsedOutput[2].re = "stats")
    => /\ ~ParsedFailed
       /\ GenericSamples = <<SampleOf("eth0", ParsedOutput[1], ParsedOutput[2], <<>>)>>
       /\ \A k \in 1..4 :
              /\ IndexOID(3 + k, 1) \in DOMAIN oidData
              /\ oidData[IndexOID(3 + k, 1)].objectValue = Int64Value(ParsedOutput[2].groups[k])

\* C25: every Sample pairs a header line of the output with a stats line that
\* comes after that header line; a stats line before the header is not used
\* for the Sample of that header.
C25_StatsFollowHeader ==
    Parsed =>
        \A n \in DOMAIN GenericSamples :
            \E i, j \in DOMAIN ParsedOutput :
                /\ i < j
                /\ ParsedOutput[i].re = ParsedHeader
                /\ ParsedOutput[j].re = "stats"
                /\ GenericSamples[n] = SampleOf("eth0", ParsedOutput[i], ParsedOutput[j], <<>>)

----------------------------------------------------------------------------
(* Properties of the stored data, continued (SpecStore).                    *)

\* The parsedData with a userClass that addData may be given.
UserData == {data \in SampleData : data.userClass # <<>>}

\* The leaf group of the k-th counter of a user: 15 to 18 for upload, 11 to
\* 14 for download.
UserCounterLeaf(direction, k) == IF direction = uploadDirection THEN 14 + k ELSE 10 + k

\* The four counters of a parsedData in the order of their leaf groups.
CountersOf(data) == <<data.sentBytes, data.sentPkt, data.droppedPkt, data.overLimitPkt>>

\* C23: addData of a parsedData with a userClass uses the index the user name
\* already has, whatever the direction it was allocated for, or the next
\* index for a new user name; it writes the four counters under the leaf
\* groups 15-18 (upload) or 11-14 (download) at that index, and root.9 counts
\* every user name once.
C23_OneIndexPerUser ==
    \A data \in UserData :
        LET uc == data.userClass[1]
            s == addData(snmpFields, data)
            index == IF uc.name \in DOMAIN userToIndex
                     THEN userToIndex[uc.name] ELSE tcLastUserIndex + 1
        IN  /\ s.userToIndex = MapPut(userToIndex, uc.name, index)
            /\ s.tcLastUserIndex = Cardinality(DOMAIN s.userToIndex)
            /\ s.oidData[LeafOID(9)].objectValue = IntValue(Cardinality(DOMAIN s.userToIndex))
            /\ s.oidData[IndexOID(10, index)].objectValue = StringValue(uc.name)
            /\ \A k \in 1..4 :
                   s.oidData[IndexOID(UserCounterLeaf(uc.direction, k), index)].objectValue
                       = Int64Value(CountersOf(data)[k])
            /\ \A k \in 1..4 :
                   LET other == IndexOID(UserCounterLeaf(1 - uc.direction, k), index)
                   IN  /\ (other \in DOMAIN s.oidData) = (other \in DOMAIN oidData)
                       /\ other \in DOMAIN oidData => s.oidData[other] = oidData[other]

\* The upload and the download of one user have been added: both are stored
\* at the index 1 and root.9 holds 1.
C23_Witness ==
    /\ ppc = "addData" /\ ifaceIdx = 2
    /\ userToIndex = ("username" :> 1) /\ tcLastUserIndex = 1
    /\ oidData[LeafOID(9)].objectValue = IntValue(1)
    /\ {IndexOID(15, 1), IndexOID(11, 1)} \subseteq DOMAIN oidData
    /\ oidData[IndexOID(15, 1)].objectValue = Int64Value("1")
    /\ oidData[IndexOID(11, 1)].objectValue = Int64Value("5")

\* A map from names to indexes is one-to-one onto 1..last.
OneToOneOnto(map, last) ==
    /\ {map[n] : n \in DOMAIN map} = 1..last
    /\ \A n1, n2 \in DOMAIN map : map[n1] = map[n2] => n1 = n2

\* The map after a name has been seen: a name that is new gets the next
\* index, a name seen before keeps its index.
AfterSeen(map, last, name) == IF name \in DOMAIN map THEN map ELSE MapPut(map, name, last + 1)

\* C28: nameToIndex maps the generic names seen since the last erase
\* one-to-one onto 1..tcLastNameIndex in the order of their first appearance,
\* and root.2 holds tcLastNameIndex once an index is allocated; the same holds
\* for userToIndex, tcLastUserIndex and root.9.
C28_IndexesInOrderOfAppearance ==
    /\ OneToOneOnto(nameToIndex, tcLastNameIndex)
    /\ OneToOneOnto(userToIndex, tcLastUserIndex)
    /\ tcLastNameIndex > 0 =>
           /\ LeafOID(2) \in DOMAIN oidData
           /\ oidData[LeafOID(2)].objectValue = IntValue(tcLastNameIndex)
    /\ tcLastUserIndex > 0 =>
           /\ LeafOID(9) \in DOMAIN oidData
           /\ oidData[LeafOID(9)].objectValue = IntValue(tcLastUserIndex)
    /\ ppc = "addData" /\ ifaceIdx = 0 => (tcLastNameIndex = 0 /\ tcLastUserIndex = 0)
    /\ \A data \in SampleData :
           LET s == addData(snmpFields, data)
           IN  IF data.userClass = <<>>
               THEN /\ s.nameToIndex = AfterSeen(nameToIndex, tcLastNameIndex, data.name)
                    /\ s.tcLastNameIndex = Cardinality(DOMAIN s.nameToIndex)
               ELSE /\ s.userToIndex =
                           AfterSeen(userToIndex, tcLastUserIndex, data.userClass[1].name)
                    /\ s.tcLastUserIndex = Cardinality(DOMAIN s.userToIndex)

\* Two generic names have been added since the erase: the first has the
\* index 1, the second the index 2, and root.2 holds 2.
C28_Witness ==
    /\ ppc = "addData" /\ ifaceIdx = 2
    /\ nameToIndex = ("eth0:1:3" :> 1) @@ ("eth0:1:0" :> 2)
    /\ tcLastNameIndex = 2
    /\ oidData[LeafOID(2)].objectValue = IntValue(2)
    /\ released.tcLastNameIndex = 1

\* The generic parsedData that addData may be given.
GenericData == {data \in SampleData : data.userClass = <<>>}

\* C29: for every allocated generic index i, root.1.i is an integer entry
\* with the value i, root.3.i is a string entry with the name whose index is
\* i, and root.4.i to root.7.i are counter entries; addData of a generic
\* parsedData puts its sentBytes, sentPkt, droppedPkt and overLimitPkt there
\* for the index of its name and leaves the counters of every other index as
\* they are, so that they hold the values of the most recent parsedData of
\* their name.
C29_EntriesOfGenericIndex ==
    /\ \A i \in 1..tcLastNameIndex :
           /\ {IndexOID(leaf, i) : leaf \in {1} \cup 3..7} \subseteq DOMAIN oidData
           /\ oidData[IndexOID(1, i)] =
                  [oid |-> IndexOID(1, i), objectType |-> "integer", objectValue |-> IntValue(i)]
           /\ oidData[IndexOID(3, i)].objectType = "string"
           /\ \E n \in DOMAIN nameToIndex :
                  /\ nameToIndex[n] = i
                  /\ oidData[IndexOID(3, i)].objectValue = StringValue(n)
           /\ \A leaf \in 4..7 :
                  /\ oidData[IndexOID(leaf, i)].objectType = "counter"
                  /\ oidData[IndexOID(leaf, i)].objectValue.type = "int64"
    /\ \A data \in GenericData :
           LET s == addData(snmpFields, data)
               index == s.nameToIndex[data.name]
           IN  /\ \A k \in 1..4 :
                      s.oidData[IndexOID(3 + k, index)] =
                          [oid |-> IndexOID(3 + k, index), objectType |-> "counter",
                           objectValue |-> Int64Value(CountersOf(data)[k])]
               /\ \A i \in 1..tcLastNameIndex, leaf \in 4..7 :
                      i # index => s.oidData[IndexOID(leaf, i)] = oidData[IndexOID(leaf, i)]

\* Two parsedData of one name have been added: the entries of its index hold
\* the counters of the second.
C29_Witness ==
    /\ ppc = "addData" /\ ifaceIdx = 2
    /\ nameToIndex = ("eth0:1:3" :> 1)
    /\ oidData[IndexOID(3, 1)].objectValue = StringValue("eth0:1:3")
    /\ oidData[IndexOID(4, 1)].objectValue = Int64Value("9")
    /\ oidData[IndexOID(7, 1)].objectValue = Int64Value("2147483648")
    /\ Occurrences(IndexOID(4, 1)) = 2

\* The keys of the leaf groups: the header or count entry of each group and
\* its entries at the indexes up to last.
KeysOfLeaves(leaves, last) ==
    {LeafOID(leaf) : leaf \in leaves} \cup
    {IndexOID(leaf, i) : leaf \in leaves, i \in 1..last}

\* The store s holds under the keys what the stored data holds under them.
SameEntries(s, keys) ==
    \A key \in keys :
        /\ (key \in DOMAIN s.oidData) = (key \in DOMAIN oidData)
        /\ key \in DOMAIN oidData => s.oidData[key] = oidData[key]

\* C30: addData of a parsedData with a userClass leaves nameToIndex,
\* tcLastNameIndex and every entry of the leaf groups 1-7 unchanged, and
\* addData of a generic parsedData leaves userToIndex, tcLastUserIndex and
\* every entry of the leaf groups 8-18 unchanged.  (Every key but the root is
\* a key of the leaf groups 1-18.)
C30_IndependentIndexes ==
    LET last == tcLastNameIndex + tcLastUserIndex + 1
    IN  /\ DOMAIN oidData \subseteq {myOID} \cup KeysOfLeaves(1..18, last)
        /\ \A data \in UserData :
               LET s == addData(snmpFields, data)
               IN  /\ s.nameToIndex = nameToIndex
                   /\ s.tcLastNameIndex = tcLastNameIndex
                   /\ SameEntries(s, KeysOfLeaves(1..7, last))
                   /\ DOMAIN s.oidData \subseteq DOMAIN oidData \cup KeysOfLeaves(8..18, last)
        /\ \A data \in GenericData :
               LET s == addData(snmpFields, data)
               IN  /\ s.userToIndex = userToIndex
                   /\ s.tcLastUserIndex = tcLastUserIndex
                   /\ SameEntries(s, KeysOfLeaves(8..18, last))
                   /\ DOMAIN s.oidData \subseteq DOMAIN oidData \cup KeysOfLeaves(1..7, last)

\* The download of a user has been added after a generic parsedData: each
\* kind has its index 1, and neither has touched the entries of the other.
C30_Witness ==
    /\ ppc = "addData" /\ ifaceIdx = 2
    /\ nameToIndex = ("eth0:1:0" :> 1) /\ tcLastNameIndex = 1
    /\ userToIndex = ("username" :> 1) /\ tcLastUserIndex = 1
    /\ oidData[IndexOID(3, 1)].objectValue = StringValue("eth0:1:0")
    /\ oidData[IndexOID(10, 1)].objectValue = StringValue("username")
    /\ IndexOID(11, 1) \in DOMAIN oidData
    /\ oids[Len(oids)] = IndexOID(14, 1)

----------------------------------------------------------------------------
(* Properties of the rebuild cycle next to the Listen loop (Spec).          *)

\* parseTc is inside t.executer.Execute: the command has been started and
\* has not returned.
InExecute == ppc \in {"executeQdisc", "executeClass"}

\* C26: nothing but the return of the command ends the wait for it; as long
\* as the command has not returned the parser holds the lock, and a get or
\* getnext cannot take the lock, stays where it waits and gets no answer.
C26_NoTimeout ==
    /\ [](InExecute => (l = "parser" /\ lpc # "locked" /\ ~ENABLED SnmpLock))
    /\ [][(InExecute /\ ppc' # ppc) =>
              /\ Len(calls') > Len(calls)
              /\ calls'[Len(calls) + 1][1] = "Execute"]_vars
    /\ [][(InExecute /\ ppc' = ppc /\ lpc = "lock") =>
              (lpc' = "lock" /\ written' = written /\ l' = "parser")]_vars
    /\ [][(InExecute /\ command' \in {getCommand, getNextCommand} /\ written' # written) =>
              written' = <<>>]_vars

\* A get waits for the lock while the Class command of a later cycle has not
\* returned.
C26_Witness ==
    /\ ppc = "executeClass" /\ l = "parser"
    /\ lpc = "lock" /\ command = getCommand /\ written = <<>>
    /\ released.tcLastNameIndex > 0

\* C27: until the initial parseTc has returned, with the lock released and
\* the keys sorted, the ticker is not started and Listen has read nothing;
\* start returns, and Listen begins, only then.
C27_InitialCycleFirst ==
    /\ [](lpc = "main" =>
              /\ ppc # "tick"
              /\ command = emptyLine /\ oid = emptyLine /\ written = <<>>
              /\ l # "listen")
    /\ [][(lpc = "main" /\ lpc' # "main") =>
              /\ ppc = "started" /\ ppc' = "tick"
              /\ l = "free"
              /\ calls # <<>> /\ calls[Len(calls)] = <<"unlock">>
              /\ CallsOf("lock") = {1} /\ CallsOf("erase") = {2}
              /\ IsSorted(oids)
              /\ released = snmpFields]_vars
    /\ [][(ppc = "tick" /\ ppc' = "lock") => lpc # "main"]_vars

\* Listen waits for its first command; the initial cycle has stored data and
\* has released the lock, and no tick has come yet.
C27_Witness ==
    /\ lpc = "read" /\ command = emptyLine /\ written = <<>>
    /\ ppc = "tick" /\ l = "free"
    /\ calls # <<>> /\ calls[Len(calls)] = <<"unlock">>
    /\ tcLastNameIndex > 0 /\ released = snmpFields


----------------------------------------------------------------------------
(* What a cycle leaves in the store.                                        *)

\* The fields of snmp after the parseData calls of the cycle from the i-th
\* call on, applied in their order to s: each writes what it parsed before it
\* returned, with an error or without.
RECURSIVE WrittenFrom(_, _)
WrittenFrom(s, i) ==
    IF i > Len(calls) THEN s
    ELSE IF CallOp(i) = "parseData"
    THEN WrittenFrom(parseData(s, calls[i][2], calls[i][3], calls[i][4],
                               userNameClass(options)).s, i + 1)
    ELSE WrittenFrom(s, i + 1)

\* C31: after a cycle that an error aborted the store holds the header
\* entries and exactly what the cycle wrote before the error, with the keys
\* sorted; nothing of the cycle before is left, and this is the state the
\* lock was released with, which queries read until the next cycle.
C31_AbortedCycleLeavesPartialData ==
    (CycleFinished /\ CycleAborted) =>
        /\ snmpFields = unlock(WrittenFrom(erase, 1))
        /\ HeaderKeys \subseteq DOMAIN oidData
        /\ IsSorted(oids)
        /\ released = snmpFields
        /\ l # "parser"

\* A query was answered with an entry of one cycle; the next cycle wrote
\* other data and was then aborted, and the entry is gone.
C31_Witness ==
    /\ ppc = "tick" /\ CycleAborted
    /\ lpc = "read" /\ command = getCommand
    /\ Len(written) = 3 /\ written[1] = oid
    /\ oid \notin DOMAIN oidData
    /\ tcLastNameIndex > 0

\* C32: what the store holds during and after a cycle is a function of the
\* options and of what the commands of that cycle returned: the entries, the
\* keys, both index maps and both counters are those that erase and the
\* parseData calls of the cycle give, whatever the store held before.
C32_CycleRebuildsFromScratch ==
    Len(calls) >= 2 =>
        /\ ~CycleFinished => snmpFields = WrittenFrom(erase, 1)
        /\ CycleFinished => /\ snmpFields = unlock(WrittenFrom(erase, 1))
                            /\ released = snmpFields

\* A cycle has written data and is about to release the lock; the cycle
\* before had left other names under the indexes, and other entries.
C32_Witness ==
    /\ ppc = "unlock" /\ ~CycleAborted
    /\ tcLastNameIndex > 0 /\ released.tcLastNameIndex > 0
    /\ released.nameToIndex # nameToIndex
    /\ DOMAIN released.oidData \ DOMAIN oidData # {}
    /\ snmpFields = WrittenFrom(erase, 1)

----------------------------------------------------------------------------
(* The lines of one command output and the Samples they give                *)
(* (SpecParseData).                                                         *)

\* The lines of the output that match the header expression, and those that
\* match the stats expression.
HeaderLines == {i \in DOMAIN ParsedOutput : ParsedOutput[i].re = ParsedHeader}
StatsLines == {i \in DOMAIN ParsedOutput : ParsedOutput[i].re = "stats"}

\* A later header line follows the header line i with no stats line between
\* the two.
Shadowed(i) ==
    \E j \in HeaderLines :
        /\ j > i
        /\ \A k \in (i + 1)..(j - 1) : k \notin StatsLines

\* The smaller of two numbers.
Min(a, b) == IF a <= b THEN a ELSE b

\* C33: an output gives at most as many Samples without userClass as it has
\* header lines and at most as many as it has stats lines, and of two header
\* lines with no stats line between them only the later one is used: no
\* Sample carries the name of a header line that a later one has replaced.
C33_EachLineInOneSample ==
    Parsed =>
        /\ Len(GenericSamples) <= Min(Cardinality(HeaderLines), Cardinality(StatsLines))
        /\ \A k \in DOMAIN GenericSamples :
               \E i \in HeaderLines :
                   /\ ~Shadowed(i)
                   /\ GenericSamples[k].name = SampleName("eth0", ParsedOutput[i])

----------------------------------------------------------------------------
(* Header and stats lines of different command outputs (SpecPending).       *)

\* The names a command output can give when it is parsed for ifaceName with
\* the header expression reHeader: those of its header lines, if it has a
\* stats line.
NamesOfOutput(cmdOutput, ifaceName, reHeader) ==
    IF \E j \in DOMAIN cmdOutput : cmdOutput[j].re = "stats"
    THEN {SampleName(ifaceName, cmdOutput[i]) :
              i \in {h \in DOMAIN cmdOutput : cmdOutput[h].re = reHeader}}
    ELSE {}

\* C34: every name the store holds in a cycle, once erased, was given by the header line and a stats
\* line of one and the same command output, parsed for one interface: a
\* header line that ends an output is not combined with a stats line of the
\* Class output or of the next interface, and the name of a Sample of Qdisc
\* output ends with the child handle 0, whatever Class output was parsed
\* before.
C34_PendingStateIsPerOutput ==
    CallsOf("erase") # {} =>
        \A name \in DOMAIN nameToIndex :
            \E i \in CallsOf("parseData") :
                name \in NamesOfOutput(calls[i][2], calls[i][3], calls[i][4])

\* The Qdisc output of the first interface ended with a header line and its
\* Class output began with a stats line; the second interface gave a Qdisc
\* Sample after the class a:10 had been parsed.  The store holds the Sample of
\* the class and the Sample of the second Qdisc, with child handle 0, and no
\* Sample of the first Qdisc.
C34_Witness ==
    /\ CycleFinished /\ ~CycleAborted
    /\ Len(calls) = 11
    /\ calls[5][2] = <<QdiscHeader("2")>>
    /\ calls[6][2] = <<StatsLine("9", "1", "0", "0"), ClassHeader("a", "10")>>
    /\ calls[9][2] = <<QdiscHeader("2"), StatsLine("12548819", "124105", "13", "25")>>
    /\ calls[10][2] = <<StatsLine("9", "1", "0", "0")>>
    /\ DOMAIN nameToIndex = { tcNameOf(ifaces(options)[1], 10, 16),
                              tcNameOf(ifaces(options)[2], 2, 0) }

----------------------------------------------------------------------------
(* The walk over the stored data (SpecListen).                              *)

\* The keys answered to getnext(k), getnext of the key answered, and so on
\* until the empty line is answered, n requests at most.
RECURSIVE WalkFrom(_, _)
WalkFrom(k, n) ==
    LET answer == snmpGetNext(snmpFields, k)
    IN  IF n = 0 \/ answer = <<emptyLine>> THEN <<>>
        ELSE <<answer[1]>> \o WalkFrom(answer[1], n - 1)

\* The walk that starts with the root key; it is cut after one request more
\* than oids has elements.
Walk == WalkFrom(myOID, Len(oids) + 1)

\* C35: the walk that starts with getnext of the root key and goes on with
\* the key last answered ends with the empty line, and before it answers every
\* stored key other than the root exactly once, each key Less than the one
\* answered after it; no answer of getnext carries the key that was asked.
\* This holds as well when oids has a key more than once.  The walk is taken
\* of the data Listen starts with, which no query changes, and every getnext
\* Listen has answered is one step of it.
C35_WalkAnswersEveryKeyOnce ==
    /\ (lpc = "read" /\ command = emptyLine) =>
           LET w == Walk
           IN  /\ Len(w) = Cardinality(StoredKeys) - 1
               /\ {w[i] : i \in DOMAIN w} = StoredKeys \ {myOID}
               /\ \A i \in DOMAIN w :
                      Less(IF i = 1 THEN myOID ELSE w[i - 1], w[i])
               /\ snmpGetNext(snmpFields, IF w = <<>> THEN myOID ELSE w[Len(w)])
                      = <<emptyLine>>
    /\ (Answered(getNextCommand) /\ oid \in StoredKeys) =>
           LET w == Walk
           IN  \/ /\ written = <<emptyLine>>
                  /\ oid = (IF w = <<>> THEN myOID ELSE w[Len(w)])
               \/ /\ Len(written) = 3
                  /\ written[1] # oid
                  /\ \E i \in DOMAIN w :
                         /\ written[1] = w[i]
                         /\ oid = (IF i = 1 THEN myOID ELSE w[i - 1])

\* oids has the key of the number of names twice, the walk has passed it
\* once, and getnext of the last key of the walk was answered with the empty
\* line.
C35_Witness ==
    /\ Answered(getNextCommand)
    /\ Len(oids) > Cardinality(StoredKeys)
    /\ Cardinality({p \in DOMAIN oids : oids[p] = LeafOID(tcNumIndexLeaf)}) = 2
    /\ Len(Walk) > 17
    /\ oid = Walk[Len(Walk)]
    /\ written = <<emptyLine>>

----------------------------------------------------------------------------
(* Progress of the queries (SpecLive).                                      *)

\* C36: when every command returns and a waiting Lock is granted at some
\* time, every get and getnext whose OID line was read is answered: parseTc
\* releases the lock after a complete cycle and after an aborted one, and
\* snmpGet and snmpGetNext hold it only until the answer is put.
C36_RequestsAreAnswered ==
    /\ (lpc = "lock") ~> (lpc = "read" /\ written # <<>>)
    /\ (l = "parser") ~> (l = "free" \/ lpc = "exited")
    /\ [](l = "listen" <=> lpc = "locked")

\* A request waits for the lock while a cycle that a failed command has
\* aborted is about to release it.
C36_Witness ==
    /\ lpc = "lock" /\ l = "parser"
    /\ ppc = "unlock" /\ CycleAborted
    /\ calls[Len(calls)] = ErrCall("TC command")

----------------------------------------------------------------------------
(* One parseTc at a time (Spec).                                            *)

\* C37: the initial parseTc and the parseTc of every tick run one after the
\* other: a parseTc starts only when the one before has returned, the tick
\* loop starts only after the initial parseTc, and while a parseTc runs
\* between its lock and its unlock it is the only one and no tick starts
\* another.
C37_OneCycleAtATime ==
    /\ [](InRebuild => /\ l = "parser"
                       /\ CallsOf("lock") = {1} /\ CallsOf("unlock") = {}
                       /\ ~ENABLED Tick /\ ~ENABLED Start)
    /\ [][(ppc' = "lock" /\ ppc # "lock") =>
              /\ ppc = "tick" /\ l # "parser"
              /\ calls = <<>> \/ calls[Len(calls)] = <<"unlock">>
              /\ calls' = <<>>]_vars
    /\ [](lpc = "main" => ppc # "tick")
    /\ [](ppc = "lock" => CallsOf("lock") = {})

\* The parseTc of a tick is past its second command while a query waits for
\* the lock; the parseTc before it has returned and left data.
C37_Witness ==
    /\ ppc = "parseQdisc" /\ l = "parser"
    /\ lpc = "lock"
    /\ Len(calls) = 4
    /\ released.tcLastNameIndex > 0

----------------------------------------------------------------------------
(* The lock and the lines Listen waits for (Spec).                          *)

\* Listen waits in getLine, for a command or for the OID line.
InGetLine == lpc \in {"read", "oid"}

\* C38: Listen does not hold the lock while it waits in getLine: the lock is
\* taken after the OID line of get or getnext was read and is released with
\* the answer, before the next command is read; so while Listen waits for a
\* line, a parseTc that asks for the lock gets it.
C38_NoLockWhileReading ==
    /\ [](InGetLine => l # "listen")
    /\ []((InGetLine /\ ppc = "lock") => ENABLED ParseTcLock)
    /\ [][(l' = "listen" /\ l # "listen") => (lpc = "lock" /\ lpc' = "locked" /\ oid' = oid)]_vars
    /\ [][(lpc = "locked" /\ lpc' # "locked") => (l = "listen" /\ l' = "free" /\ lpc' = "read")]_vars
    /\ [][(lpc' = "lock" /\ lpc # "lock") => lpc = "oid"]_vars

\* Listen waits for the OID line of a getnext while a parseTc holds the lock
\* and parses.
C38_Witness ==
    /\ lpc = "oid" /\ command = getNextCommand
    /\ l = "parser" /\ ppc = "parseClass"
    /\ tcLastNameIndex > 0

----------------------------------------------------------------------------
(* What changes the stored data (Spec).                                     *)

\* C39: no step of Listen changes the stored data: reading a command or an
\* OID line, answering PING, get, getnext or an unknown command leave
\* oidData, oids, both index maps and both counters as they are, and a get or
\* getnext answers from the data as they are.  The stored data change in
\* steps of parseTc only, which holds the lock then.
C39_QueriesAreReadOnly ==
    /\ [][ListenStep => snmpFields' = snmpFields]_vars
    /\ [][(lpc = "locked" /\ lpc' # "locked") =>
              /\ snmpFields' = snmpFields
              /\ written' = IF command = getCommand
                            THEN snmpGet(snmpFields, oid)
                            ELSE snmpGetNext(snmpFields, oid)]_vars
    /\ [][snmpFields' # snmpFields =>
              /\ l = "parser"
              /\ ppc \in {"erase", "parseQdisc", "parseClass", "unlock"}
              /\ ~ListenStep]_vars

\* A getnext for a stored key was answered with the entry after it, and the
\* stored data are those the last parseTc released, names and indexes
\* included.
C39_Witness ==
    /\ Answered(getNextCommand)
    /\ Len(written) = 3 /\ oid \in StoredKeys
    /\ tcLastNameIndex > 0
    /\ snmpFields = released
    /\ ppc = "tick"

----------------------------------------------------------------------------
(* Less as an order (SpecSorter).                                           *)

\* C40: Less is a strict weak order on the OIDs of a list: no OID is Less
\* than itself, Less never holds in both directions, it is transitive, and so
\* is the relation of two OIDs neither of which is Less than the other (seen
\* on every list before it is sorted); and the sort, given this, leaves no
\* OID before one that is Less than it.
C40_LessIsStrictWeakOrder ==
    LET parts == <<>> \o [i \in 1..Len(oids) |-> IntParts(oids[i])]
        lt(i, j) == LessParts(parts[i], parts[j])
        eq(i, j) == ~lt(i, j) /\ ~lt(j, i)
    IN  IF ppc = "sort"
        THEN /\ \A i \in DOMAIN oids : ~lt(i, i)
             /\ \A i, j \in DOMAIN oids : lt(i, j) => ~lt(j, i)
             /\ \A i, j, k \in DOMAIN oids : (lt(i, j) /\ lt(j, k)) => lt(i, k)
             /\ \A i, j, k \in DOMAIN oids : (eq(i, j) /\ eq(j, k)) => eq(i, k)
        ELSE \A i, j \in DOMAIN oids : i < j => ~lt(j, i)

\* A list of three OIDs has been sorted: the first and the second are
\* distinct and neither is Less than the other, and both are Less than the
\* third, which stood first before the sort.
C40_Witness ==
    /\ ppc = "sorted"
    /\ oids = <<".9.0", ".9", ".2147483648">>
    /\ ~Less(oids[1], oids[2]) /\ ~Less(oids[2], oids[1])
    /\ Less(oids[1], oids[3]) /\ Less(oids[2], oids[3])
====
